---------------------------- MODULE Spec2Model ----------------------------
(***************************************************************************)
(* A model of secretfriend's voice pipeline: the SoundDeviceListener       *)
(* (capture, echo memory, listen_for_phrase), listen_for_wake_word,        *)
(* listen_for_command and the voice_mode loop.                             *)
(*                                                                         *)
(* Python strings are sequences of one-character strings, so that lower(), *)
(* strip(), replace(), split() and the substring test are computed and not *)
(* assumed.  Time is counted in ticks of half a second, the length of one  *)
(* blocking poll of the audio queue (queue.get(timeout=0.5)).              *)
(***************************************************************************)
EXTENDS Integers, Sequences, FiniteSets, TLC

VARIABLES
    \* SoundDeviceListener
    is_listening,       \* self.is_listening
    stream,             \* self.stream: "none" or "open"
    audio_queue,        \* self.audio_queue: chunks not yet consumed
    last_spoken_text,   \* self.last_spoken_text: None or a string
    \* the clock read by time.time(), in ticks
    now,
    \* the recognizer's vocabulary in this run (what the user may be heard to say)
    vocab,
    \* listen_for_phrase's frame
    ppc,                \* "idle", "loop", "ret", "raised"
    p_timeout,          \* its timeout argument, in ticks
    p_start,            \* start_time
    was_not_listening,
    rec_partial,        \* the recognizer's current partial hypothesis
    p_ret,              \* the value returned
    p_result,           \* history: the recognition result it looked at last
    leaked,             \* streams opened, never closed and no longer held in self.stream
    session,            \* history: how often capture went from stopped to running
    discarded,          \* history: the chunks the last start of capture threw away
    next_id,            \* history: the number the next chunk gets, 0 if chunks are not
                        \* numbered
    fed,                \* history: the numbers of the chunks fed to a recognizer, in order
    buffered,           \* history: the numbers of the chunks captured while `say` was
                        \* running that no recognizer has been fed yet
    \* listen_for_wake_word's frame
    wpc,                \* "idle", "loop", "ret", "raised"
    wake_phrase,        \* its argument
    wake_words,         \* the variants it listens for (as a set)
    w_text,             \* the text of the recognition result it looked at last
    \* listen_for_command's frame
    cpc,                \* "idle", "check", "wait", "ret", "raised"
    end_command, timeout, silence_timeout,
    full_command, start_time, last_activity,
    c_ret,              \* the value returned
    c_exit,             \* which exit was taken: "none", "sentinel", "overall", "silence", "end"
    accepted,           \* history: the segments listen_for_phrase handed over in this pass
    \* voice_mode's frame
    vpc,                \* position in voice_mode
    in_conversation,
    command,
    response,           \* special_response / response
    cycle,              \* history: what the loop did since it last reached its top
    playing,            \* the text `say` is vocalizing, or None
    interrupted,        \* history: an interrupt arrived in the current turn of the loop
    \* the echo filter exercised on its own
    e_spoken,           \* the text last passed to set_last_spoken
    e_text,             \* the candidate last passed to should_ignore_text
    e_ignored,          \* what should_ignore_text returned for it
    \* _text_similarity exercised on its own
    s_text1, s_text2,   \* its arguments
    s_sim,              \* what it returned, as <<numerator, denominator>>
    \* main, cli_mode and cli_mode_with_initial_text
    mpc,                \* position in main and in cli_mode
    user_input,         \* the text at hand: args.text joined, or the line typed
    processed,          \* what process_command returned for it
    checked,            \* history: the text process_command returned None for last
    sent                \* history: the text last passed to send_to_llm

listener_vars == <<is_listening, stream, audio_queue, last_spoken_text>>
chunk_vars    == <<next_id, fed, buffered>>
phrase_vars   == <<ppc, p_timeout, p_start, was_not_listening, rec_partial, p_ret,
                   p_result>>
command_vars  == <<cpc, end_command, timeout, silence_timeout, full_command,
                   start_time, last_activity, c_ret, c_exit, accepted>>
voice_vars    == <<vpc, in_conversation, command, response, cycle, playing,
                   interrupted>>
echo_vars     == <<e_spoken, e_text, e_ignored>>
wake_vars     == <<wpc, wake_phrase, wake_words, w_text>>
sim_vars      == <<s_text1, s_text2, s_sim>>
main_vars     == <<mpc, user_input, processed, checked, sent>>
vars == <<listener_vars, leaked, session, discarded, chunk_vars, now, vocab, phrase_vars,
          wake_vars,
          command_vars, voice_vars, echo_vars, sim_vars, main_vars>>

-----------------------------------------------------------------------------
(* Bounds of the model *)

\* longest text the echo filter is exercised on
MaxLen == 3
\* most chunks waiting in the audio queue
MaxQueue == 2
\* the clock stops at this tick
MaxTime == 6
\* most segments one collection pass accepts
MaxSegs == 2
\* largest overall / silence timeout (seconds) a collection pass is given
MaxTimeout == 2
\* the chunks that are numbered when chunks are followed one by one
MaxChunks == 3

-----------------------------------------------------------------------------
(* Python's str, as far as the program uses it *)

\* Python's None; no string is equal to it
None == <<"None">>

\* no recognition result has been looked at yet
NoResult == [kind |-> "none", text |-> <<>>]

\* what process_command has answered when it has not been called
Unprocessed == [kind |-> "unprocessed", text |-> None]

UpperChars == <<"A","B","C","D","E","F","G","H","I","J","K","L","M",
                "N","O","P","Q","R","S","T","U","V","W","X","Y","Z">>
LowerChars == <<"a","b","c","d","e","f","g","h","i","j","k","l","m",
                "n","o","p","q","r","s","t","u","v","w","x","y","z">>
Whitespace == {" ", "\t", "\n", "\r"}

LowerChar(c) ==
    IF \E i \in 1..Len(UpperChars) : UpperChars[i] = c
    THEN LowerChars[CHOOSE i \in 1..Len(UpperChars) : UpperChars[i] = c]
    ELSE c

\* s.lower()
Lower(s) == <<>> \o [i \in 1..Len(s) |-> LowerChar(s[i])]

\* s.strip()
Strip(s) ==
    LET keep == {i \in 1..Len(s) : s[i] \notin Whitespace}
    IN  IF keep = {} THEN <<>>
        ELSE LET lo == CHOOSE i \in keep : \A j \in keep : i <= j
                 hi == CHOOSE i \in keep : \A j \in keep : j <= i
             IN  SubSeq(s, lo, hi)

\* s.replace(c, '') for a one-character c
Remove(s, c) == SelectSeq(s, LAMBDA x : x # c)

\* the positions at which a occurs in b
Occurrences(a, b) ==
    {i \in 1..(Len(b) - Len(a) + 1) : SubSeq(b, i, i + Len(a) - 1) = a}

\* a in b
Contains(a, b) == Occurrences(a, b) # {}

\* b.find(a, from): the 0-based index of the first occurrence at or after from, or -1
Find(a, b, from) ==
    LET at == {i \in Occurrences(a, b) : i - 1 >= from}
    IN  IF at = {} THEN -1
        ELSE (CHOOSE i \in at : \A j \in at : i <= j) - 1

\* b.split(a, 1)[0]: what precedes the first occurrence of a (all of b if there is none)
SplitFirst(b, a) ==
    IF Find(a, b, 0) = -1 THEN b ELSE SubSeq(b, 1, Find(a, b, 0))

\* set(s.split()): the maximal runs of non-whitespace characters
Words(s) ==
    LET starts == {i \in 1..Len(s) :
                      s[i] \notin Whitespace /\ (i = 1 \/ s[i - 1] \in Whitespace)}
        ends   == {j \in 1..Len(s) :
                      s[j] \notin Whitespace /\ (j = Len(s) \/ s[j + 1] \in Whitespace)}
        EndOf(i) == CHOOSE j \in ends : j >= i /\ \A k \in ends : k >= i => j <= k
    IN  {SubSeq(s, i, EndOf(i)) : i \in starts}

Min(a, b) == IF a < b THEN a ELSE b

-----------------------------------------------------------------------------
(* The echo filter: SoundDeviceListener.set_last_spoken, should_ignore_text *)

\* text.lower().strip().replace('.', '').replace('?', '').replace('!', '')
Normalize(text) == Remove(Remove(Remove(Strip(Lower(text)), "."), "?"), "!")

\* set_last_spoken(text): the new value of last_spoken_text
set_last_spoken(old, text) ==
    IF text # None /\ text # <<>> THEN Normalize(text) ELSE old

\* _text_similarity with the containment test forgotten: the overlap of words alone
text_similarity_words_only(text1, text2) ==
    IF text1 = None \/ text1 = <<>> \/ text2 = None \/ text2 = <<>> THEN <<0, 1>>
    ELSE LET words1 == Words(Lower(text1))
             words2 == Words(Lower(text2))
         IN  IF words1 = {} \/ words2 = {} THEN <<0, 1>>
             ELSE <<Cardinality(words1 \cap words2),
                    Min(Cardinality(words1), Cardinality(words2))>>

\* _text_similarity with split() forgotten: set(text) is the set of the characters,
\* not of the words
text_similarity_chars(text1, text2) ==
    IF text1 = None \/ text1 = <<>> \/ text2 = None \/ text2 = <<>> THEN <<0, 1>>
    ELSE LET t1 == Lower(text1)
             t2 == Lower(text2)
             shorter == IF Len(t1) < Len(t2) THEN t1 ELSE t2
             longer  == IF Len(t1) < Len(t2) THEN t2 ELSE t1
             chars1 == {t1[i] : i \in 1..Len(t1)}
             chars2 == {t2[i] : i \in 1..Len(t2)}
         IN  IF Contains(shorter, longer) THEN <<1, 1>>
             ELSE <<Cardinality(chars1 \cap chars2),
                    Min(Cardinality(chars1), Cardinality(chars2))>>

\* _text_similarity with the containment tested one way only: text1 in text2
text_similarity_first_in_second(text1, text2) ==
    IF text1 = None \/ text1 = <<>> \/ text2 = None \/ text2 = <<>> THEN <<0, 1>>
    ELSE LET t1 == Lower(text1)
             t2 == Lower(text2)
             words1 == Words(t1)
             words2 == Words(t2)
         IN  IF Contains(t1, t2) THEN <<1, 1>>
             ELSE IF words1 = {} \/ words2 = {} THEN <<0, 1>>
             ELSE <<Cardinality(words1 \cap words2),
                    Min(Cardinality(words1), Cardinality(words2))>>

\* _text_similarity(text1, text2) as the fraction <<numerator, denominator>>
text_similarity(text1, text2) ==
    IF text1 = None \/ text1 = <<>> \/ text2 = None \/ text2 = <<>> THEN <<0, 1>>
    ELSE LET t1 == Lower(text1)
             t2 == Lower(text2)
             shorter == IF Len(t1) < Len(t2) THEN t1 ELSE t2
             longer  == IF Len(t1) < Len(t2) THEN t2 ELSE t1
             words1 == Words(t1)
             words2 == Words(t2)
         IN  IF Contains(shorter, longer) THEN <<1, 1>>
             ELSE IF words1 = {} \/ words2 = {} THEN <<0, 1>>
             ELSE <<Cardinality(words1 \cap words2),
                    Min(Cardinality(words1), Cardinality(words2))>>

\* the threshold taken as one half
AboveHalf(sim) == 2 * sim[1] > sim[2]

\* similarity > 0.7
AboveThreshold(sim) == 10 * sim[1] > 7 * sim[2]

\* should_ignore_text(text), with last the stored last_spoken_text
should_ignore_text(last, text) ==
    IF last = None \/ last = <<>> \/ text = None \/ text = <<>> THEN FALSE
    ELSE LET clean_text == Normalize(text)
             similarity == text_similarity(clean_text, last)
         IN  AboveThreshold(similarity)

-----------------------------------------------------------------------------
(* The echo filter on its own: texts are spoken, then one candidate is tried *)

\* the characters the texts are made of: a lower-case and an upper-case letter,
\* whitespace, punctuation that set_last_spoken removes
EchoChars == {"a", "B", " ", "."}

\* every text of at most n characters
RECURSIVE TextsUpTo(_)
TextsUpTo(n) ==
    IF n = 0 THEN {<<>>}
    ELSE LET shorter == TextsUpTo(n - 1)
         IN  shorter \cup {Append(t, c) : t \in {u \in shorter : Len(u) = n - 1},
                                           c \in EchoChars}

\* longer texts of several words, which differ in one word of three or of four
EchoPhrases ==
    {<<"a", " ", "B", " ", "a", "a">>,
     <<"a", " ", "B", " ", "B", "B">>,
     <<"a", " ", "B", " ", "a", "a", " ", "a", "B">>,
     <<"a", " ", "B", " ", "a", "a", " ", "B", "a">>}

EchoTexts == TextsUpTo(MaxLen) \cup EchoPhrases

\* set_last_spoken(text) is called
EchoSpeak ==
    /\ e_text = None
    /\ \E text \in EchoTexts :
         /\ last_spoken_text' = set_last_spoken(last_spoken_text, text)
         /\ e_spoken' = text
    /\ UNCHANGED <<is_listening, stream, audio_queue, now, vocab, leaked, session,
                   discarded, chunk_vars, sim_vars, main_vars, phrase_vars, wake_vars,
                   command_vars, voice_vars, e_text, e_ignored>>

\* should_ignore_text(text) is called; it changes nothing in the listener, so one
\* call after any number of set_last_spoken calls shows all it can answer
EchoHear ==
    /\ e_text = None
    /\ \E text \in EchoTexts :
         /\ e_text' = text
         /\ e_ignored' = should_ignore_text(last_spoken_text, text)
    /\ UNCHANGED <<listener_vars, now, vocab, leaked, session, discarded, chunk_vars,
                   sim_vars, main_vars, phrase_vars, wake_vars, command_vars, voice_vars,
                   e_spoken>>

InitEcho ==
    /\ is_listening = FALSE
    /\ stream = "none"
    /\ audio_queue = <<>>
    /\ last_spoken_text = None
    /\ now = 0
    /\ vocab = {}
    /\ ppc = "idle" /\ p_timeout = 0 /\ p_start = 0 /\ was_not_listening = FALSE
    /\ rec_partial = <<>> /\ p_ret = <<>> /\ p_result = NoResult
    /\ wpc = "idle" /\ wake_phrase = <<>> /\ wake_words = {} /\ w_text = <<>>
    /\ leaked = 0
    /\ session = IF is_listening THEN 1 ELSE 0
    /\ discarded = 0
    /\ next_id = 0 /\ fed = <<>> /\ buffered = <<>>
    /\ cpc = "idle"
    /\ end_command = <<>>
    /\ timeout = 0
    /\ silence_timeout = 0
    /\ full_command = <<>> /\ start_time = 0 /\ last_activity = 0
    /\ c_ret = <<>> /\ c_exit = "none" /\ accepted = <<>>
    /\ vpc = "idle" /\ in_conversation = FALSE /\ command = <<>> /\ response = <<>>
    /\ cycle = <<>> /\ playing = None /\ interrupted = FALSE
    /\ e_spoken = None /\ e_text = None /\ e_ignored = FALSE
    /\ s_text1 = None /\ s_text2 = None /\ s_sim = None
    /\ mpc = "idle" /\ user_input = None /\ processed = Unprocessed
    /\ checked = None /\ sent = None

NextEcho ==
    \/ EchoSpeak
    \/ EchoHear

SpecEcho == InitEcho /\ [][NextEcho]_vars

\* C10 as stated: whatever text (the empty one aside, which is not spoken) was last
\* passed to set_last_spoken, a candidate that is equal to it or contains it is
\* classified as echo
C10_EchoOfSpoken ==
    (/\ e_spoken # None /\ e_spoken # <<>>
     /\ e_text # None
     /\ Contains(e_spoken, e_text)) => e_ignored

\* C10, for spoken texts whose normalized form is not empty: a candidate that is
\* equal to the text or contains it is classified as echo
C10_EchoOfAudible ==
    (/\ e_spoken # None /\ e_text # None
     /\ Normalize(e_spoken) # <<>>
     /\ Contains(e_spoken, e_text)) => e_ignored

\* a candidate that contains the spoken text without being equal to it, where the
\* spoken text is not stored as it was spoken, was classified as echo
C10_Witness ==
    /\ e_spoken # None /\ e_text # None
    /\ Normalize(e_spoken) # <<>> /\ Normalize(e_spoken) # e_spoken
    /\ Contains(e_spoken, e_text) /\ e_text # e_spoken
    /\ e_ignored

\* the spoken text and the candidate, both normalized, have no word in common
NoCommonWord ==
    Words(Normalize(e_spoken)) \cap Words(Normalize(e_text)) = {}

\* C11 as stated: a candidate that shares no whitespace-delimited word with the
\* spoken text is not classified as echo
C11_NoCommonWord ==
    (/\ e_spoken # None /\ e_spoken # <<>>
     /\ e_text # None
     /\ NoCommonWord) => ~e_ignored

\* C11, for candidates that are no part of the spoken text and do not contain it:
\* when the normalized candidate and the normalized spoken text have no word in
\* common and neither is a substring of the other, the candidate is not
\* classified as echo
C11_NoCommonWordNoSubstring ==
    (/\ e_spoken # None /\ e_spoken # <<>>
     /\ e_text # None
     /\ NoCommonWord
     /\ ~Contains(Normalize(e_spoken), Normalize(e_text))
     /\ ~Contains(Normalize(e_text), Normalize(e_spoken))) => ~e_ignored

\* both texts have words, none in common, neither holds the other, and the
\* candidate was let through
C11_Witness ==
    /\ e_spoken # None /\ e_text # None
    /\ Words(Normalize(e_spoken)) # {} /\ Words(Normalize(e_text)) # {}
    /\ NoCommonWord
    /\ ~Contains(Normalize(e_spoken), Normalize(e_text))
    /\ ~Contains(Normalize(e_text), Normalize(e_spoken))
    /\ Len(e_text) > 1
    /\ ~e_ignored

\* the similarity of the candidate tried, normalized, to the stored text
HeardSimilarity == text_similarity(Normalize(e_text), last_spoken_text)

C13_WitnessBelow ==
    /\ e_text # None /\ last_spoken_text # None
    /\ HeardSimilarity = <<2, 3>>
    /\ ~e_ignored

\* the part of C14 that holds: a text that is not empty replaces whatever was
\* stored, by its lower-cased and trimmed form without '.', '?' and '!'
C14_StoredAsCoded ==
    (e_spoken # None /\ e_spoken # <<>>) => last_spoken_text = Normalize(e_spoken)

-----------------------------------------------------------------------------
(* Configuration and fixed texts *)

\* one second, in ticks: a blocking poll of the queue lasts half a second
TicksPerSecond == 2
\* listen_for_command polls listen_for_phrase with timeout=1
PhrasePollSeconds == 1

\* voice_mode's settings, read from the environment when it starts.  The phrases
\* are the defaults; the timeouts (seconds) are set short, COMMAND_TIMEOUT=1 and
\* SILENCE_TIMEOUT=0, so that both run out within the model's clock
VoiceTimeouts == [command_timeout |-> 1, silence_timeout |-> 0]

hi_phrase    == <<"l", "i", "s", "t", "e", "n", " ", "u", "p">>
go_phrase    == <<"g", "o", " ", "f", "o", "r", " ", "i", "t">>
done_phrase  == <<"t", "h", "a", "t", " ", "w", "i", "l", "l", " ", "d", "o">>
pre_command  == <<"h", "o", "c", "u", "s", " ", "p", "o", "c", "u", "s">>
post_command == <<"a", "b", "r", "a", "c", "a", "d", "a", "b", "r", "a">>

\* "Sorry, I didn't hear your command."
Sentinel == <<"S", "o", "r", "r", "y", ",", " ", "I", " ", "d", "i", "d", "n", "'", "t", " ",
              "h", "e", "a", "r", " ", "y", "o", "u", "r", " ",
              "c", "o", "m", "m", "a", "n", "d", ".">>
Yes     == <<"y", "e", "s">>
Goodbye == <<"G", "o", "o", "d", "b", "y", "e", "!">>

\* things the user may be heard to say
GoFor       == <<"g", "o", " ", "f", "o", "r">>
ItGoForIt   == <<"i", "t", " ", "g", "o", " ", "f", "o", "r", " ", "i", "t">>
LightsOn    == <<"t", "u", "r", "n", " ", "t", "h", "e", " ", "l", "i", "g", "h", "t", "s", " ", "o", "n">>
Extra       == <<" ", "e", "x", "t", "r", "a">>
LightsOnGoExtra == LightsOn \o <<" ">> \o go_phrase \o Extra

\* the recognizer's vocabulary when listen_for_command is exercised on its own
CollectVocab == {go_phrase, GoFor, ItGoForIt, LightsOnGoExtra, Yes}

\* "hocus pocus exit abracadabra"
ExitCommand ==
    <<"h", "o", "c", "u", "s", " ", "p", "o", "c", "u", "s", " ", "e", "x", "i", "t",
      " ", "a", "b", "r", "a", "c", "a", "d", "a", "b", "r", "a">>

\* "hocus pocus list models abracadabra"
ListCommand ==
    <<"h", "o", "c", "u", "s", " ", "p", "o", "c", "u", "s", " ", "l", "i", "s", "t",
      " ", "m", "o", "d", "e", "l", "s", " ", "a", "b", "r", "a", "c", "a", "d", "a",
      "b", "r", "a">>

\* the recognizer's vocabulary in voice mode
VoiceVocab == {hi_phrase, go_phrase, done_phrase, ExitCommand, ListCommand}

ListModels == <<"l", "i", "s", "t", " ", "m", "o", "d", "e", "l", "s">>

Exit == <<"e", "x", "i", "t">>

\* "Available models: "
AvailableModels ==
    <<"A", "v", "a", "i", "l", "a", "b", "l", "e", " ", "m", "o", "d", "e", "l", "s",
      ":", " ">>

CommaSpace == <<",", " ">>

\* "No Ollama models found. Make sure Ollama is running with models installed."
NoModelsFound ==
    <<"N", "o", " ", "O", "l", "l", "a", "m", "a", " ", "m", "o", "d", "e", "l", "s",
      " ", "f", "o", "u", "n", "d", ".", " ", "M", "a", "k", "e", " ", "s", "u", "r",
      "e", " ", "O", "l", "l", "a", "m", "a", " ", "i", "s", " ", "r", "u", "n", "n",
      "i", "n", "g", " ", "w", "i", "t", "h", " ", "m", "o", "d", "e", "l", "s", " ",
      "i", "n", "s", "t", "a", "l", "l", "e", "d", ".">>

\* "Unknown command: "
UnknownCommand ==
    <<"U", "n", "k", "n", "o", "w", "n", " ", "c", "o", "m", "m", "a", "n", "d", ":",
      " ">>

\* ". Try 'list models' or 'exit'."
TryListOrExit ==
    <<".", " ", "T", "r", "y", " ", "'", "l", "i", "s", "t", " ", "m", "o", "d", "e",
      "l", "s", "'", " ", "o", "r", " ", "'", "e", "x", "i", "t", "'", ".">>

\* "gemma2:latest"
Gemma == <<"g", "e", "m", "m", "a", "2", ":", "l", "a", "t", "e", "s", "t">>

\* "No response received"
NoResponseReceived ==
    <<"N", "o", " ", "r", "e", "s", "p", "o", "n", "s", "e", " ", "r", "e", "c", "e",
      "i", "v", "e", "d">>

\* "Received response but couldn't parse it properly"
CouldNotParse ==
    <<"R", "e", "c", "e", "i", "v", "e", "d", " ", "r", "e", "s", "p", "o", "n", "s",
      "e", " ", "b", "u", "t", " ", "c", "o", "u", "l", "d", "n", "'", "t", " ", "p",
      "a", "r", "s", "e", " ", "i", "t", " ", "p", "r", "o", "p", "e", "r", "l", "y">>

\* "I'm sorry, I had trouble connecting to the local LLM service. Make sure Ollama is running and you have models installed."
TroubleConnecting ==
    <<"I", "'", "m", " ", "s", "o", "r", "r", "y", ",", " ", "I", " ", "h", "a", "d",
      " ", "t", "r", "o", "u", "b", "l", "e", " ", "c", "o", "n", "n", "e", "c", "t",
      "i", "n", "g", " ", "t", "o", " ", "t", "h", "e", " ", "l", "o", "c", "a", "l",
      " ", "L", "L", "M", " ", "s", "e", "r", "v", "i", "c", "e", ".", " ", "M", "a",
      "k", "e", " ", "s", "u", "r", "e", " ", "O", "l", "l", "a", "m", "a", " ", "i",
      "s", " ", "r", "u", "n", "n", "i", "n", "g", " ", "a", "n", "d", " ", "y", "o",
      "u", " ", "h", "a", "v", "e", " ", "m", "o", "d", "e", "l", "s", " ", "i", "n",
      "s", "t", "a", "l", "l", "e", "d", ".">>

ThinkOpen == <<"<", "t", "h", "i", "n", "k", ">">>

ThinkClose == <<"<", "/", "t", "h", "i", "n", "k", ">">>

Sure == <<"S", "u", "r", "e", ".">>

\* an answer of a model that shows its reasoning in a think block
ThoughtSure == ThinkOpen \o <<"h", "m">> \o ThinkClose \o Sure

-----------------------------------------------------------------------------
(* SoundDeviceListener: capture *)

\* what opening the input stream may do: succeed, fail in sd.InputStream(...),
\* or fail in stream.start() after self.stream was assigned
StartOutcomes == {"ok", "open_fails", "start_fails"}

\* start_listening with line 69 forgotten: a failure leaves is_listening set
start_listening_keeps_flag(outcome) ==
    LET dropped == IF stream = "none" THEN leaked ELSE leaked + 1
    IN  IF is_listening
        THEN [is_listening |-> is_listening, stream |-> stream,
              audio_queue |-> audio_queue, leaked |-> leaked, session |-> session,
              discarded |-> discarded, raised |-> FALSE]
        ELSE CASE outcome = "ok" ->
                    [is_listening |-> TRUE, stream |-> "open",
                     audio_queue |-> <<>>, leaked |-> dropped,
                     session |-> session + 1, discarded |-> Len(audio_queue),
                     raised |-> FALSE]
               [] outcome = "open_fails" ->
                    [is_listening |-> TRUE, stream |-> stream,
                     audio_queue |-> <<>>, leaked |-> leaked, session |-> session,
                     discarded |-> Len(audio_queue), raised |-> TRUE]
               [] outcome = "start_fails" ->
                    [is_listening |-> TRUE, stream |-> "unstarted",
                     audio_queue |-> <<>>, leaked |-> dropped, session |-> session,
                     discarded |-> Len(audio_queue), raised |-> TRUE]

\* start_listening with lines 52-56 forgotten: the queue is not cleared
start_listening_keeps_queue(outcome) ==
    LET dropped == IF stream = "none" THEN leaked ELSE leaked + 1
    IN  IF is_listening
        THEN [is_listening |-> is_listening, stream |-> stream,
              audio_queue |-> audio_queue, leaked |-> leaked, session |-> session,
              discarded |-> discarded, raised |-> FALSE]
        ELSE CASE outcome = "ok" ->
                    [is_listening |-> TRUE, stream |-> "open",
                     audio_queue |-> audio_queue, leaked |-> dropped,
                     session |-> session + 1, discarded |-> 0,
                     raised |-> FALSE]
               [] outcome = "open_fails" ->
                    [is_listening |-> FALSE, stream |-> stream,
                     audio_queue |-> audio_queue, leaked |-> leaked, session |-> session,
                     discarded |-> 0, raised |-> TRUE]
               [] outcome = "start_fails" ->
                    [is_listening |-> FALSE, stream |-> "unstarted",
                     audio_queue |-> audio_queue, leaked |-> dropped, session |-> session,
                     discarded |-> 0, raised |-> TRUE]

\* start_listening() with the queue emptied before the test of is_listening: capture
\* that is running already loses the chunks that wait
start_listening_always_clears(outcome) ==
    LET dropped == IF stream = "none" THEN leaked ELSE leaked + 1
    IN  IF is_listening
        THEN [is_listening |-> is_listening, stream |-> stream,
              audio_queue |-> <<>>, leaked |-> leaked, session |-> session,
              discarded |-> Len(audio_queue), raised |-> FALSE]
        ELSE CASE outcome = "ok" ->
                    [is_listening |-> TRUE, stream |-> "open",
                     audio_queue |-> <<>>, leaked |-> dropped,
                     session |-> session + 1, discarded |-> Len(audio_queue),
                     raised |-> FALSE]
               [] outcome = "open_fails" ->
                    [is_listening |-> FALSE, stream |-> stream,
                     audio_queue |-> <<>>, leaked |-> leaked, session |-> session,
                     discarded |-> Len(audio_queue), raised |-> TRUE]
               [] outcome = "start_fails" ->
                    [is_listening |-> FALSE, stream |-> "unstarted",
                     audio_queue |-> <<>>, leaked |-> dropped, session |-> session,
                     discarded |-> Len(audio_queue), raised |-> TRUE]

\* start_listening(): the listener's new fields and whether it raised
start_listening(outcome) ==
    LET \* assigning self.stream drops the stream it held, which nothing closes
        dropped == IF stream = "none" THEN leaked ELSE leaked + 1
    IN  IF is_listening
        THEN [is_listening |-> is_listening, stream |-> stream,
              audio_queue |-> audio_queue, leaked |-> leaked, session |-> session,
              discarded |-> discarded, raised |-> FALSE]
        ELSE CASE outcome = "ok" ->
                    [is_listening |-> TRUE, stream |-> "open",
                     audio_queue |-> <<>>, leaked |-> dropped,
                     session |-> session + 1, discarded |-> Len(audio_queue),
                     raised |-> FALSE]
               [] outcome = "open_fails" ->
                    [is_listening |-> FALSE, stream |-> stream,
                     audio_queue |-> <<>>, leaked |-> leaked, session |-> session,
                     discarded |-> Len(audio_queue), raised |-> TRUE]
               [] outcome = "start_fails" ->
                    [is_listening |-> FALSE, stream |-> "unstarted",
                     audio_queue |-> <<>>, leaked |-> dropped, session |-> session,
                     discarded |-> Len(audio_queue), raised |-> TRUE]

\* stop_listening() without effect: capture stays as it is
stop_listening_keeps == [is_listening |-> is_listening, stream |-> stream]

\* stop_listening(): the listener's new is_listening and stream
stop_listening ==
    IF ~is_listening
    THEN [is_listening |-> is_listening, stream |-> stream]
    ELSE [is_listening |-> FALSE, stream |-> "none"]

\* rec.AcceptWaveform(data): a recognizer is fed the chunk
Feed(chunk) ==
    /\ fed' = IF chunk.id = 0 THEN fed ELSE Append(fed, chunk.id)
    /\ buffered' = SelectSeq(buffered, LAMBDA k : k # chunk.id)
    /\ UNCHANGED next_id

\* _audio_callback with the chunk put at the front of the queue
AudioCallbackFront ==
    /\ stream = "open"
    /\ Len(audio_queue) < MaxQueue
    /\ next_id <= MaxChunks
    /\ audio_queue' = <<[session |-> session, id |-> next_id]>> \o audio_queue
    /\ next_id' = IF next_id = 0 THEN 0 ELSE next_id + 1
    /\ buffered' = IF next_id # 0 /\ playing # None
                   THEN Append(buffered, next_id) ELSE buffered
    /\ UNCHANGED fed
    /\ UNCHANGED <<is_listening, stream, last_spoken_text, now, vocab, leaked, session,
                   discarded, sim_vars, main_vars, phrase_vars, wake_vars,
                   command_vars, voice_vars, echo_vars>>

\* _audio_callback: the running stream puts one more chunk on the queue
AudioCallback ==
    /\ stream = "open"
    /\ Len(audio_queue) < MaxQueue
    /\ next_id <= MaxChunks
    /\ audio_queue' = Append(audio_queue, [session |-> session, id |-> next_id])
    /\ next_id' = IF next_id = 0 THEN 0 ELSE next_id + 1
    /\ buffered' = IF next_id # 0 /\ playing # None
                   THEN Append(buffered, next_id) ELSE buffered
    /\ UNCHANGED fed
    /\ UNCHANGED <<is_listening, stream, last_spoken_text, now, vocab, leaked, session,
                   discarded, sim_vars, main_vars, phrase_vars, wake_vars,
                   command_vars, voice_vars, echo_vars>>

-----------------------------------------------------------------------------
(* SoundDeviceListener.listen_for_phrase *)

\* lines 135-144: the recognizer is created, capture is started if it was not running
PhraseEnter ==
    /\ ppc = "call"
    /\ \E outcome \in StartOutcomes :
         LET r == start_listening(outcome)
         IN  /\ is_listening' = r.is_listening
             /\ stream' = r.stream
             /\ audio_queue' = r.audio_queue
             /\ leaked' = r.leaked
             /\ session' = r.session
             /\ discarded' = r.discarded
             /\ UNCHANGED chunk_vars
             /\ ppc' = IF r.raised THEN "raised" ELSE "loop"
    /\ was_not_listening' = ~is_listening
    /\ rec_partial' = <<>>
    /\ p_start' = now
    /\ p_ret' = <<>>
    /\ p_result' = NoResult
    /\ UNCHANGED <<last_spoken_text, now, vocab, sim_vars, main_vars, p_timeout, wake_vars,
                   command_vars, voice_vars, echo_vars>>

\* PhraseReturn with the test of line 194 forgotten: the finally clause always stops
PhraseReturnAlwaysStops(value) ==
    /\ ppc' = "ret"
    /\ p_ret' = value
    /\ is_listening' = stop_listening.is_listening
    /\ stream' = stop_listening.stream

\* the return statement and the finally clause (lines 192-195)
PhraseReturn(value) ==
    /\ ppc' = "ret"
    /\ p_ret' = value
    /\ is_listening' = IF was_not_listening THEN stop_listening.is_listening ELSE is_listening
    /\ stream' = IF was_not_listening THEN stop_listening.stream ELSE stream

\* json.loads raises on a payload that is no JSON; nothing in listen_for_phrase
\* catches it, so the finally clause runs (lines 192-195) and the exception leaves
PhraseRaise ==
    /\ ppc' = "raised"
    /\ p_ret' = <<>>
    /\ is_listening' = IF was_not_listening THEN stop_listening.is_listening ELSE is_listening
    /\ stream' = IF was_not_listening THEN stop_listening.stream ELSE stream

\* PhraseGetEmpty with a wait on the queue that has no bound: get() returns only
\* with a chunk and queue.Empty is never raised, so an empty queue gives no step
PhraseGetEmptyBlocking ==
    /\ ppc = "loop"
    /\ now - p_start < p_timeout
    /\ audio_queue = <<>>
    /\ FALSE
    /\ UNCHANGED vars

\* line 149, queue.Empty: half a second passed and no chunk came
PhraseGetEmpty ==
    /\ ppc = "loop"
    /\ now - p_start < p_timeout
    /\ audio_queue = <<>>
    /\ now < MaxTime
    /\ now' = now + 1
    /\ UNCHANGED <<listener_vars, vocab, leaked, session, discarded, chunk_vars, sim_vars,
                   main_vars, phrase_vars, wake_vars, command_vars, voice_vars, echo_vars>>

\* whether the payload the recognizer hands out is JSON
Payloads == {"json", "malformed"}

\* lines 149-172: a chunk is taken (after waiting d ticks for it) and fed to the
\* recognizer, which answers with a final result or with a partial one; the payload
\* is decoded by json.loads
PhraseGetData ==
    /\ ppc = "loop"
    /\ now - p_start < p_timeout
    /\ audio_queue # <<>>
    /\ \E d \in {0, 1}, final \in BOOLEAN, heard \in vocab \cup {<<>>},
          payload \in Payloads :
         LET text == Strip(heard)
         IN  /\ now + d <= MaxTime
             /\ heard # <<>> => Len(accepted) < MaxSegs
             /\ now' = now + d
             /\ audio_queue' = Tail(audio_queue)
             /\ Feed(Head(audio_queue))
             /\ IF payload = "malformed"
                THEN /\ rec_partial' = IF final THEN <<>> ELSE heard
                     /\ p_result' = [kind |-> "malformed", text |-> <<>>]
                     /\ PhraseRaise
                ELSE IF final
                THEN /\ rec_partial' = <<>>
                     /\ p_result' = [kind |-> "final", text |-> text]
                     /\ IF text # <<>> /\ ~should_ignore_text(last_spoken_text, text)
                        THEN PhraseReturn(text)
                        ELSE UNCHANGED <<ppc, p_ret, is_listening, stream>>
                ELSE /\ rec_partial' = heard
                     /\ p_result' = [kind |-> "partial", text |-> text]
                     /\ UNCHANGED <<ppc, p_ret, is_listening, stream>>
    /\ UNCHANGED <<last_spoken_text, vocab, leaked, session, discarded,
                   sim_vars, main_vars, p_timeout, p_start, was_not_listening, wake_vars,
                   command_vars, voice_vars, echo_vars>>

\* lines 176-191 with the echo check of the final partial result forgotten
PhraseTimeoutUnfiltered ==
    /\ ppc = "loop"
    /\ ~(now - p_start < p_timeout)
    /\ PhraseReturn(Strip(rec_partial))
    /\ UNCHANGED <<audio_queue, last_spoken_text, now, vocab, leaked, session, discarded,
                   chunk_vars, sim_vars, main_vars, p_timeout, p_start, was_not_listening,
                   rec_partial, p_result, wake_vars, command_vars, voice_vars, echo_vars>>

\* lines 176-191 with the look at the partial result forgotten: after the timeout
\* the empty string is returned
PhraseTimeoutEmpty ==
    /\ ppc = "loop"
    /\ ~(now - p_start < p_timeout)
    /\ PhraseReturn(<<>>)
    /\ UNCHANGED <<audio_queue, last_spoken_text, now, vocab, leaked, session, discarded,
                   chunk_vars, sim_vars, main_vars, p_timeout, p_start, was_not_listening,
                   rec_partial, p_result, wake_vars, command_vars, voice_vars, echo_vars>>

\* lines 176-191: the timeout elapsed; the recognizer's partial result is decoded
\* and, if there is any and it is no echo, returned
PhraseTimeout ==
    /\ ppc = "loop"
    /\ ~(now - p_start < p_timeout)
    /\ \E payload \in Payloads :
         LET partial_text == Strip(rec_partial)
         IN  IF payload = "malformed"
             THEN /\ p_result' = [kind |-> "malformed", text |-> <<>>]
                  /\ PhraseRaise
             ELSE /\ UNCHANGED p_result
                  /\ IF /\ partial_text # <<>>
                        /\ ~should_ignore_text(last_spoken_text, partial_text)
                     THEN PhraseReturn(partial_text)
                     ELSE PhraseReturn(<<>>)
    /\ UNCHANGED <<audio_queue, last_spoken_text, now, vocab, leaked, session, discarded,
                   chunk_vars, sim_vars, main_vars, p_timeout, p_start, was_not_listening,
                   rec_partial, wake_vars, command_vars, voice_vars, echo_vars>>

-----------------------------------------------------------------------------
(* listen_for_command *)

\* a frame that has returned holds nothing any more
PhraseFrameGone ==
    /\ ppc' = "idle"
    /\ p_timeout' = 0
    /\ p_start' = 0
    /\ was_not_listening' = FALSE
    /\ rec_partial' = <<>>
    /\ p_ret' = <<>>
    /\ p_result' = NoResult

CommandFrameGone ==
    /\ cpc' = "idle"
    /\ full_command' = <<>>
    /\ start_time' = 0
    /\ last_activity' = 0
    /\ c_ret' = <<>>
    /\ accepted' = <<>>

\* lines 259-264
CommandEnter ==
    /\ cpc = "call"
    /\ playing = None
    /\ full_command' = <<>>
    /\ start_time' = now
    /\ last_activity' = now
    /\ accepted' = <<>>
    /\ c_exit' = "none"
    /\ c_ret' = <<>>
    /\ \E outcome \in StartOutcomes :
         LET r == start_listening(outcome)
         IN  /\ is_listening' = r.is_listening
             /\ stream' = r.stream
             /\ audio_queue' = r.audio_queue
             /\ leaked' = r.leaked
             /\ session' = r.session
             /\ discarded' = r.discarded
             /\ UNCHANGED chunk_vars
             /\ cpc' = IF r.raised THEN "raised" ELSE "check"
    /\ UNCHANGED <<last_spoken_text, now, vocab, sim_vars, main_vars, phrase_vars,
                   wake_vars, end_command, timeout, silence_timeout, voice_vars,
                   echo_vars>>

\* return value, with the exit taken
CommandReturn(value, exit) ==
    /\ cpc' = "ret"
    /\ c_ret' = value
    /\ c_exit' = exit

\* CommandCheck with the sentinel forgotten: at the overall timeout the accumulated
\* text is returned even when it is empty
CommandCheckNoSentinel ==
    /\ cpc = "check"
    /\ IF now - start_time > timeout * TicksPerSecond
       THEN /\ CommandReturn(Strip(full_command), "overall")
            /\ UNCHANGED <<ppc, p_timeout>>
       ELSE IF now - last_activity > silence_timeout * TicksPerSecond /\ full_command # <<>>
       THEN /\ CommandReturn(Strip(full_command), "silence")
            /\ UNCHANGED <<ppc, p_timeout>>
       ELSE /\ cpc' = "wait"
            /\ ppc' = "call"
            /\ p_timeout' = PhrasePollSeconds * TicksPerSecond
            /\ UNCHANGED <<c_ret, c_exit>>
    /\ UNCHANGED <<listener_vars, now, vocab, leaked, session, discarded, chunk_vars,
                   sim_vars, main_vars, p_start, was_not_listening, rec_partial, p_ret,
                   p_result, wake_vars, end_command, timeout, silence_timeout, full_command,
                   start_time, last_activity, accepted, voice_vars, echo_vars>>

\* CommandCheck with the silence measured from the start of the pass and not from
\* the last segment
CommandCheckSilenceFromStart ==
    /\ cpc = "check"
    /\ IF now - start_time > timeout * TicksPerSecond
       THEN /\ IF full_command = <<>>
               THEN CommandReturn(Sentinel, "sentinel")
               ELSE CommandReturn(Strip(full_command), "overall")
            /\ UNCHANGED <<ppc, p_timeout>>
       ELSE IF now - start_time > silence_timeout * TicksPerSecond /\ full_command # <<>>
       THEN /\ CommandReturn(Strip(full_command), "silence")
            /\ UNCHANGED <<ppc, p_timeout>>
       ELSE /\ cpc' = "wait"
            /\ ppc' = "call"
            /\ p_timeout' = PhrasePollSeconds * TicksPerSecond
            /\ UNCHANGED <<c_ret, c_exit>>
    /\ UNCHANGED <<listener_vars, now, vocab, leaked, session, discarded, chunk_vars,
                   sim_vars, main_vars, p_start, was_not_listening, rec_partial, p_ret,
                   p_result, wake_vars, end_command, timeout, silence_timeout, full_command,
                   start_time, last_activity, accepted, voice_vars, echo_vars>>

\* CommandCheck with the silence check not asking for accumulated text
CommandCheckSilenceAlone ==
    /\ cpc = "check"
    /\ IF now - start_time > timeout * TicksPerSecond
       THEN /\ IF full_command = <<>>
               THEN CommandReturn(Sentinel, "sentinel")
               ELSE CommandReturn(Strip(full_command), "overall")
            /\ UNCHANGED <<ppc, p_timeout>>
       ELSE IF now - last_activity > silence_timeout * TicksPerSecond
       THEN /\ CommandReturn(Strip(full_command), "silence")
            /\ UNCHANGED <<ppc, p_timeout>>
       ELSE /\ cpc' = "wait"
            /\ ppc' = "call"
            /\ p_timeout' = PhrasePollSeconds * TicksPerSecond
            /\ UNCHANGED <<c_ret, c_exit>>
    /\ UNCHANGED <<listener_vars, now, vocab, leaked, session, discarded, chunk_vars,
                   sim_vars, main_vars, p_start, was_not_listening, rec_partial, p_ret,
                   p_result, wake_vars, end_command, timeout, silence_timeout, full_command,
                   start_time, last_activity, accepted, voice_vars, echo_vars>>

\* lines 268-280: the two timeout checks, then the next one-second poll
CommandCheck ==
    /\ cpc = "check"
    /\ IF now - start_time > timeout * TicksPerSecond
       THEN /\ IF full_command = <<>>
               THEN CommandReturn(Sentinel, "sentinel")
               ELSE CommandReturn(Strip(full_command), "overall")
            /\ UNCHANGED <<ppc, p_timeout>>
       ELSE IF now - last_activity > silence_timeout * TicksPerSecond /\ full_command # <<>>
       THEN /\ CommandReturn(Strip(full_command), "silence")
            /\ UNCHANGED <<ppc, p_timeout>>
       ELSE /\ cpc' = "wait"
            /\ ppc' = "call"
            /\ p_timeout' = PhrasePollSeconds * TicksPerSecond
            /\ UNCHANGED <<c_ret, c_exit>>
    /\ UNCHANGED <<listener_vars, now, vocab, leaked, session, discarded, chunk_vars,
                   sim_vars, main_vars, p_start, was_not_listening, rec_partial, p_ret,
                   p_result, wake_vars, end_command, timeout, silence_timeout, full_command,
                   start_time, last_activity, accepted, voice_vars, echo_vars>>

\* lines 281-291: what the poll returned is appended, up to the end phrase
CommandGotText ==
    /\ cpc = "wait"
    /\ ppc = "ret"
    /\ PhraseFrameGone
    /\ LET text == p_ret
       IN  IF text # <<>>
           THEN /\ last_activity' = now
                /\ accepted' = Append(accepted, text)
                /\ IF Contains(end_command, Lower(text))
                   THEN LET grown == full_command \o SplitFirst(Lower(text), end_command)
                                                  \o <<" ">>
                        IN  /\ full_command' = grown
                            /\ CommandReturn(Strip(grown), "end")
                   ELSE /\ full_command' = full_command \o text \o <<" ">>
                        /\ cpc' = "check"
                        /\ UNCHANGED <<c_ret, c_exit>>
           ELSE /\ cpc' = "check"
                /\ UNCHANGED <<last_activity, accepted, full_command, c_ret, c_exit>>
    /\ UNCHANGED <<listener_vars, now, vocab, leaked, session, discarded, chunk_vars,
                   sim_vars, main_vars, wake_vars, end_command, timeout, silence_timeout,
                   start_time, voice_vars, echo_vars>>

\* line 280: listen_for_phrase raised; the exception passes the empty finally
\* clause (lines 292-294) and leaves listen_for_command
CommandPhraseRaised ==
    /\ cpc = "wait"
    /\ ppc = "raised"
    /\ PhraseFrameGone
    /\ cpc' = "raised"
    /\ UNCHANGED <<listener_vars, now, vocab, leaked, session, discarded, chunk_vars,
                   sim_vars, main_vars, wake_vars, end_command, timeout, silence_timeout,
                   full_command, start_time, last_activity, c_ret, c_exit, accepted,
                   voice_vars, echo_vars>>

-----------------------------------------------------------------------------
(* listen_for_command on its own: any timeouts, capture running or not *)

InitCollect ==
    /\ is_listening \in BOOLEAN
    /\ stream = IF is_listening THEN "open" ELSE "none"
    /\ audio_queue = <<>>
    /\ last_spoken_text \in {None, Yes}
    /\ now = 0
    /\ vocab = CollectVocab
    /\ ppc = "idle" /\ p_timeout = 0 /\ p_start = 0 /\ was_not_listening = FALSE
    /\ rec_partial = <<>> /\ p_ret = <<>> /\ p_result = NoResult
    /\ wpc = "idle" /\ wake_phrase = <<>> /\ wake_words = {} /\ w_text = <<>>
    /\ leaked = 0
    /\ session = IF is_listening THEN 1 ELSE 0
    /\ discarded = 0
    /\ next_id = 0 /\ fed = <<>> /\ buffered = <<>>
    /\ cpc = "call"
    /\ end_command = go_phrase
    /\ timeout \in 0..MaxTimeout
    /\ silence_timeout \in 0..MaxTimeout
    /\ full_command = <<>> /\ start_time = 0 /\ last_activity = 0
    /\ c_ret = <<>> /\ c_exit = "none" /\ accepted = <<>>
    /\ vpc = "idle" /\ in_conversation = FALSE /\ command = <<>> /\ response = <<>>
    /\ cycle = <<>> /\ playing = None /\ interrupted = FALSE
    /\ e_spoken = None /\ e_text = None /\ e_ignored = FALSE
    /\ s_text1 = None /\ s_text2 = None /\ s_sim = None
    /\ mpc = "idle" /\ user_input = None /\ processed = Unprocessed
    /\ checked = None /\ sent = None

NextCollect ==
    \/ AudioCallback
    \/ PhraseEnter
    \/ PhraseGetEmpty
    \/ PhraseGetData
    \/ PhraseTimeout
    \/ CommandEnter
    \/ CommandCheck
    \/ CommandGotText
    \/ CommandPhraseRaised

SpecCollect == InitCollect /\ [][NextCollect]_vars

-----------------------------------------------------------------------------
(* Properties of listen_for_command (SpecCollect) *)

\* the timeouts in ticks
OverallTicks == timeout * TicksPerSecond
SilenceTicks == silence_timeout * TicksPerSecond
PollTicks    == PhrasePollSeconds * TicksPerSecond

\* C6: a pass in which no segment was recognized ends only after overall_timeout
\* has elapsed and then returns the sentinel; a pass that ends at the overall
\* timeout with text accumulated returns that text; no poll is started once the
\* overall timeout has elapsed, so the pass ends within one poll of it
C6_OverallTimeout ==
    /\ (cpc = "ret" /\ accepted = <<>>) =>
           /\ c_exit = "sentinel"
           /\ c_ret = Sentinel
           /\ now - start_time > OverallTicks
    /\ (cpc = "ret" /\ c_exit = "overall") =>
           /\ full_command # <<>>
           /\ c_ret = Strip(full_command)
           /\ now - start_time > OverallTicks
    /\ (cpc = "wait" /\ ppc = "loop") => p_start - start_time <= OverallTicks
    /\ (cpc = "ret" /\ c_exit \in {"sentinel", "overall"}) =>
           now - start_time <= OverallTicks + PollTicks

\* a pass with a positive timeout heard nothing and returned the sentinel
C6_Witness ==
    /\ cpc = "ret" /\ c_exit = "sentinel" /\ accepted = <<>>
    /\ timeout > 0

\* a pass ended at the overall timeout with text accumulated
C6_WitnessAccumulated ==
    /\ cpc = "ret" /\ c_exit = "overall" /\ accepted # <<>>

\* C7: once a segment has been accumulated, no poll is started after
\* silence_timeout has elapsed since the last segment: the pass ends there, before
\* the overall timeout, and returns the accumulated text
C7_SilenceTimeout ==
    /\ (cpc = "wait" /\ ppc = "loop" /\ full_command # <<>>) =>
           p_start - last_activity <= SilenceTicks
    /\ (cpc = "ret" /\ c_exit = "silence") =>
           /\ accepted # <<>>
           /\ c_ret = Strip(full_command)
           /\ now - last_activity > SilenceTicks
           /\ now - last_activity <= SilenceTicks + PollTicks
           /\ now - start_time <= OverallTicks

\* silence_timeout is positive and below overall_timeout, and the pass ended on
\* silence while the overall timeout had not elapsed
C7_Witness ==
    /\ cpc = "ret" /\ c_exit = "silence"
    /\ 0 < silence_timeout /\ silence_timeout < timeout
    /\ now - start_time <= OverallTicks

\* C8: while nothing is accumulated the pass ends only by the end phrase or by the
\* overall timeout, however long the silence
C8_SilenceNeedsText ==
    [][(cpc \in {"check", "wait"} /\ full_command = <<>> /\ cpc' = "ret") =>
           \/ c_exit' = "end"
           \/ c_exit' = "sentinel" /\ now' - start_time' > timeout' * TicksPerSecond]_vars

\* nothing is accumulated, the silence has outlasted silence_timeout, and the pass
\* polls on
C8_Witness ==
    /\ cpc = "wait" /\ ppc = "loop" /\ full_command = <<>>
    /\ p_start - last_activity > SilenceTicks

\* C9: a pass that ended on the end phrase returns a command that holds neither the
\* end phrase nor anything said after it
C9_EndPhraseCut ==
    (cpc = "ret" /\ c_exit = "end") =>
        /\ ~Contains(end_command, Lower(c_ret))
        /\ \A i \in 1..Len(accepted) :
               LET seg == Lower(accepted[i])
                   at == Find(end_command, seg, 0)
                   after == Strip(SubSeq(seg, at + Len(end_command) + 1, Len(seg)))
               IN  (at # -1 /\ after # <<>>) => ~Contains(after, Lower(c_ret))

\* the part of C9 that holds: when the pass is one segment, what is returned is
\* what precedes the end phrase in it
C9_SingleSegment ==
    (cpc = "ret" /\ c_exit = "end" /\ Len(accepted) = 1) =>
        /\ c_ret = Strip(SplitFirst(Lower(accepted[1]), end_command))
        /\ ~Contains(end_command, c_ret)

-----------------------------------------------------------------------------
(* listen_for_wake_word *)

\* s.split(): the words of s in order
WordList(s) ==
    LET starts == {i \in 1..Len(s) :
                      s[i] \notin Whitespace /\ (i = 1 \/ s[i - 1] \in Whitespace)}
        ends   == {j \in 1..Len(s) :
                      s[j] \notin Whitespace /\ (j = Len(s) \/ s[j + 1] \in Whitespace)}
        EndOf(i) == CHOOSE j \in ends : j >= i /\ \A k \in ends : k >= i => j <= k
        Nth(n) == CHOOSE i \in starts : Cardinality({k \in starts : k < i}) = n - 1
    IN  [n \in 1..Cardinality(starts) |-> SubSeq(s, Nth(n), EndOf(Nth(n)))]

\* lines 202-212 with the last word forgotten: the phrase, its first word, and the
\* first two words of a phrase of three words or more
WakeWordsFirstOnly(phrase) ==
    LET words == WordList(phrase)
        n == Len(words)
    IN  {phrase}
        \cup (IF n > 1 THEN {words[1]} ELSE {})
        \cup (IF n > 2 THEN {words[1] \o <<" ">> \o words[2]} ELSE {})

\* lines 202-212: the set of the texts in the list wake_words
WakeWords(phrase) ==
    LET words == WordList(phrase)
        n == Len(words)
    IN  {phrase}
        \cup (IF n > 1 THEN {words[1], words[n]} ELSE {})
        \cup (IF n > 2 THEN {words[1] \o <<" ">> \o words[2],
                             words[n - 1] \o <<" ">> \o words[n]}
              ELSE {})

\* any(text in word for word in wake_words): the containment the wrong way round
AnyWakeWordHolds(words, text) ==
    \E word \in words : Contains(text, word)

\* any(word in text for word in wake_words)
AnyWakeWordIn(words, text) ==
    \E word \in words : Contains(word, text)

\* the frame of listen_for_wake_word is gone
WakeFrameGone ==
    /\ wpc' = "idle"
    /\ wake_phrase' = <<>>
    /\ wake_words' = {}
    /\ w_text' = <<>>

\* lines 199-221
WakeEnter ==
    /\ wpc = "call"
    /\ \E outcome \in StartOutcomes :
         LET r == start_listening(outcome)
         IN  /\ is_listening' = r.is_listening
             /\ stream' = r.stream
             /\ audio_queue' = r.audio_queue
             /\ leaked' = r.leaked
             /\ session' = r.session
             /\ discarded' = r.discarded
             /\ UNCHANGED chunk_vars
             /\ wpc' = IF r.raised THEN "raised" ELSE "loop"
    /\ wake_words' = WakeWords(wake_phrase)
    /\ w_text' = <<>>
    /\ UNCHANGED <<last_spoken_text, now, vocab, sim_vars, main_vars, phrase_vars,
                   wake_phrase, command_vars, voice_vars, echo_vars>>

\* line 225, queue.Empty
WakeGetEmpty ==
    /\ wpc = "loop"
    /\ audio_queue = <<>>
    /\ now < MaxTime
    /\ now' = now + 1
    /\ UNCHANGED <<listener_vars, vocab, leaked, session, discarded, chunk_vars, sim_vars,
                   main_vars, phrase_vars, wake_vars, command_vars, voice_vars, echo_vars>>

\* lines 225-251 with the partial results left unexamined: only a full result that
\* holds a wake word ends the wait
WakeGetDataFinalOnly ==
    /\ wpc = "loop"
    /\ audio_queue # <<>>
    /\ \E d \in {0, 1}, final \in BOOLEAN, heard \in vocab \cup {<<>>} :
         LET text == Strip(Lower(heard))
         IN  /\ now + d <= MaxTime
             /\ now' = now + d
             /\ audio_queue' = Tail(audio_queue)
             /\ Feed(Head(audio_queue))
             /\ w_text' = text
             /\ wpc' = IF final /\ AnyWakeWordIn(wake_words, text)
                       THEN "ret" ELSE "loop"
    /\ UNCHANGED <<is_listening, stream, last_spoken_text, vocab, leaked, session,
                   discarded, sim_vars, main_vars, phrase_vars, wake_phrase,
                   wake_words, command_vars, voice_vars, echo_vars>>

\* lines 225-251: a chunk is fed to the recognizer; a full or partial result that
\* holds a wake word ends the wait.  The payload is decoded by json.loads, which
\* raises on one that is no JSON; only queue.Empty is caught (line 252)
WakeGetData ==
    /\ wpc = "loop"
    /\ audio_queue # <<>>
    /\ \E d \in {0, 1}, final \in BOOLEAN, heard \in vocab \cup {<<>>},
          payload \in Payloads :
         LET text == Strip(Lower(heard))
         IN  /\ now + d <= MaxTime
             /\ now' = now + d
             /\ audio_queue' = Tail(audio_queue)
             /\ Feed(Head(audio_queue))
             /\ IF payload = "malformed"
                THEN /\ w_text' = <<>>
                     /\ wpc' = "raised"
                ELSE /\ w_text' = text
                     /\ wpc' = IF (final \/ text # <<>>) /\ AnyWakeWordIn(wake_words, text)
                               THEN "ret" ELSE "loop"
    /\ UNCHANGED <<is_listening, stream, last_spoken_text, vocab, leaked, session,
                   discarded, sim_vars, main_vars, phrase_vars, wake_phrase,
                   wake_words, command_vars, voice_vars, echo_vars>>

-----------------------------------------------------------------------------
(* speech_output.py, command_processor.py, llm_client.py *)

\* re.sub(r'<think>.*?</think>', '', text, flags=re.DOTALL)
RECURSIVE RemoveThinkBlocks(_)
RemoveThinkBlocks(text) ==
    LET open == Find(ThinkOpen, text, 0)
        close == IF open = -1 THEN -1 ELSE Find(ThinkClose, text, open + Len(ThinkOpen))
    IN  IF close = -1 THEN text
        ELSE SubSeq(text, 1, open)
             \o RemoveThinkBlocks(SubSeq(text, close + Len(ThinkClose) + 1, Len(text)))

\* re.sub(r'<[^>]+>', '', text)
RECURSIVE RemoveTags(_)
RemoveTags(text) ==
    LET CloseOf(i) == Find(<<">">>, text, i)
        opens == {i \in 1..Len(text) : text[i] = "<" /\ CloseOf(i) >= i + 1}
    IN  IF opens = {} THEN text
        ELSE LET i == CHOOSE k \in opens : \A m \in opens : k <= m
             IN  SubSeq(text, 1, i - 1)
                 \o RemoveTags(SubSeq(text, CloseOf(i) + 2, Len(text)))

\* clean_response(text)
clean_response(text) == Strip(RemoveTags(RemoveThinkBlocks(text)))

\* speak with lines 20-21 moved behind the playback: nothing is recorded when `say`
\* starts
speak_unrecorded(text) == last_spoken_text

\* speak(text, sound_listener): the new last_spoken_text (text is a string)
speak(text) == set_last_spoken(last_spoken_text, clean_response(text))

\* lines 24-27 of speech_output.py: what `say` is run on by speak(text), None if
\* the cleaned text is empty and nothing is vocalized
Vocalized(text) ==
    LET cleaned_text == clean_response(text)
    IN  IF Strip(cleaned_text) # <<>> THEN cleaned_text ELSE None

\* ', '.join(models)
RECURSIVE JoinComma(_)
JoinComma(models) ==
    IF models = <<>> THEN <<>>
    ELSE IF Len(models) = 1 THEN models[1]
    ELSE models[1] \o CommaSpace \o JoinComma(Tail(models))

\* what list_models() may return
ModelLists == {<<>>, <<Gemma>>}

\* process_command(command), with models what list_models() returns:
\* [kind |-> "none"] for None, [kind |-> "exit"] for sys.exit(0), or a text
process_command(cmd, models) ==
    LET lowered == Strip(Lower(cmd))
        start_idx == Find(pre_command, lowered, 0) + Len(pre_command)
        end_idx == Find(post_command, lowered, start_idx)
        actual_command == Strip(SubSeq(lowered, start_idx + 1, end_idx))
    IN  IF Contains(pre_command, lowered) /\ Contains(post_command, lowered)
           /\ end_idx > start_idx
        THEN IF actual_command = ListModels
             THEN [kind |-> "text",
                   text |-> IF models # <<>> THEN AvailableModels \o JoinComma(models)
                            ELSE NoModelsFound]
             ELSE IF actual_command = Exit
             THEN [kind |-> "exit", text |-> None]
             ELSE [kind |-> "text",
                   text |-> UnknownCommand \o actual_command \o TryListOrExit]
        ELSE [kind |-> "none", text |-> None]

\* what the two endpoints may do: answer 200, answer another status, or fail to
\* connect; and what a 200 answer holds
LLMOutcomes ==
    [first : {"200", "other", "error"}, second : {"200", "unparsable", "other", "error"},
     reply : {Sure, ThoughtSure, NoResponseReceived}]

\* send_to_llm(request): a text or None
send_to_llm(request, o) ==
    IF o.first = "200" THEN o.reply
    ELSE IF o.first = "error" THEN TroubleConnecting
    ELSE IF o.second = "200" THEN o.reply
    ELSE IF o.second = "unparsable" THEN CouldNotParse
    ELSE IF o.second = "error" THEN TroubleConnecting
    ELSE None

-----------------------------------------------------------------------------
(* voice_mode *)

\* lines 38-54: the model path is checked and the listener is constructed; either
\* may fail, and voice_mode then falls back to cli_mode
VoiceStart ==
    /\ vpc = "start"
    /\ \E outcome \in {"ok", "no_model", "init_fails"} :
         vpc' = IF outcome = "ok" THEN "top" ELSE "cli"
    /\ UNCHANGED <<listener_vars, now, vocab, leaked, session, discarded, chunk_vars,
                   sim_vars, main_vars, phrase_vars, wake_vars, command_vars,
                   in_conversation, command, response, cycle, echo_vars, playing,
                   interrupted>>

\* VoiceTop with the test of in_conversation forgotten: every turn of the loop waits
\* for the wake word
VoiceTopAlwaysWake ==
    /\ vpc = "top"
    /\ playing = None
    /\ wpc' = "call"
    /\ wake_phrase' = hi_phrase
    /\ vpc' = "wake"
    /\ cycle' = <<"wake">>
    /\ command' = <<>>
    /\ interrupted' = FALSE
    /\ response' = <<>>
    /\ UNCHANGED <<listener_vars, now, vocab, leaked, session, discarded, chunk_vars,
                   sim_vars, main_vars, phrase_vars, wake_words, w_text, command_vars,
                   in_conversation, echo_vars, playing>>

\* lines 60-67: the head of the loop
VoiceTop ==
    /\ vpc = "top"
    /\ playing = None
    /\ IF ~in_conversation
       THEN /\ wpc' = "call"
            /\ wake_phrase' = hi_phrase
            /\ vpc' = "wake"
            /\ cycle' = <<"wake">>
       ELSE /\ vpc' = "ack"
            /\ cycle' = <<>>
            /\ UNCHANGED <<wpc, wake_phrase>>
    \* command and response are not read again before they are assigned again
    /\ command' = <<>>
    /\ interrupted' = FALSE
    /\ response' = <<>>
    /\ UNCHANGED <<listener_vars, now, vocab, leaked, session, discarded, chunk_vars,
                   sim_vars, main_vars, phrase_vars, wake_words, w_text, command_vars,
                   in_conversation, echo_vars, playing>>

\* lines 63-64: listen_for_wake_word returned True
VoiceWakeReturned ==
    /\ vpc = "wake"
    /\ wpc = "ret"
    /\ WakeFrameGone
    /\ in_conversation' = TRUE
    /\ vpc' = "ack"
    /\ UNCHANGED <<listener_vars, now, vocab, leaked, session, discarded, chunk_vars,
                   sim_vars, main_vars, phrase_vars, command_vars, command, response, cycle,
                   echo_vars, playing, interrupted>>

\* lines 69-72: the acknowledgement is spoken and listen_for_command is called with
\* go_phrase, command_timeout and silence_timeout
VoiceAck ==
    /\ vpc = "ack"
    /\ last_spoken_text' = speak(Yes)
    /\ playing' = Vocalized(Yes)
    /\ cycle' = cycle \o <<"say_yes", "collect">>
    /\ cpc' = "call"
    /\ end_command' = go_phrase
    /\ vpc' = "collect"
    /\ UNCHANGED <<is_listening, stream, audio_queue, now, vocab, leaked, session,
                   discarded, chunk_vars, sim_vars, main_vars, phrase_vars, wake_vars,
                   timeout, silence_timeout, full_command, start_time, last_activity, c_ret,
                   c_exit, accepted, in_conversation, command, response, echo_vars,
                   interrupted>>

\* VoiceDispatch with an empty command taken as the end of the conversation
VoiceDispatchEmptyLeaves ==
    /\ vpc = "collect"
    /\ cpc = "ret"
    /\ CommandFrameGone
    /\ command' = c_ret
    /\ \E models \in ModelLists :
         LET special_response == process_command(c_ret, models)
         IN  IF Contains(done_phrase, Lower(c_ret))
             THEN /\ last_spoken_text' = speak(Goodbye)
                  /\ playing' = Vocalized(Goodbye)
                  /\ in_conversation' = FALSE
                  /\ cycle' = cycle \o <<"command", "say_goodbye">>
                  /\ vpc' = "top"
                  /\ UNCHANGED <<is_listening, stream, response>>
             ELSE IF c_ret = <<>>
             THEN /\ cycle' = cycle \o <<"command">>
                  /\ in_conversation' = FALSE
                  /\ vpc' = "top"
                  /\ UNCHANGED <<is_listening, stream, last_spoken_text, response, playing>>
             ELSE IF special_response.kind = "exit"
             THEN \* SystemExit passes the finally clause (line 100) and ends the process
                  /\ cycle' = cycle \o <<"command", "process">>
                  /\ is_listening' = stop_listening.is_listening
                  /\ stream' = stop_listening.stream
                  /\ vpc' = "exited"
                  /\ UNCHANGED <<last_spoken_text, in_conversation, response, playing>>
             ELSE IF special_response.kind = "text"
             THEN /\ response' = special_response.text
                  /\ last_spoken_text' = speak(special_response.text)
                  /\ playing' = Vocalized(special_response.text)
                  /\ cycle' = cycle \o <<"command", "process", "say_special">>
                  /\ vpc' = "top"
                  /\ UNCHANGED <<is_listening, stream, in_conversation>>
             ELSE /\ cycle' = cycle \o <<"command", "process">>
                  /\ vpc' = "llm"
                  /\ UNCHANGED <<is_listening, stream, last_spoken_text,
                                 in_conversation, response, playing>>
    /\ UNCHANGED <<audio_queue, now, vocab, leaked, session, discarded, chunk_vars,
                   sim_vars, main_vars, phrase_vars, wake_vars, end_command, timeout,
                   silence_timeout, c_exit, echo_vars, interrupted>>

\* VoiceDispatch with the done phrase looked for by equality and not by containment
VoiceDispatchDoneEquals ==
    /\ vpc = "collect"
    /\ cpc = "ret"
    /\ CommandFrameGone
    /\ command' = c_ret
    /\ \E models \in ModelLists :
         LET special_response == process_command(c_ret, models)
         IN  IF done_phrase = Lower(c_ret)
             THEN /\ last_spoken_text' = speak(Goodbye)
                  /\ playing' = Vocalized(Goodbye)
                  /\ in_conversation' = FALSE
                  /\ cycle' = cycle \o <<"command", "say_goodbye">>
                  /\ vpc' = "top"
                  /\ UNCHANGED <<is_listening, stream, response>>
             ELSE IF c_ret = <<>>
             THEN /\ cycle' = cycle \o <<"command">>
                  /\ vpc' = "top"
                  /\ UNCHANGED <<is_listening, stream, last_spoken_text,
                                 in_conversation, response, playing>>
             ELSE IF special_response.kind = "exit"
             THEN \* SystemExit passes the finally clause (line 100) and ends the process
                  /\ cycle' = cycle \o <<"command", "process">>
                  /\ is_listening' = stop_listening.is_listening
                  /\ stream' = stop_listening.stream
                  /\ vpc' = "exited"
                  /\ UNCHANGED <<last_spoken_text, in_conversation, response, playing>>
             ELSE IF special_response.kind = "text"
             THEN /\ response' = special_response.text
                  /\ last_spoken_text' = speak(special_response.text)
                  /\ playing' = Vocalized(special_response.text)
                  /\ cycle' = cycle \o <<"command", "process", "say_special">>
                  /\ vpc' = "top"
                  /\ UNCHANGED <<is_listening, stream, in_conversation>>
             ELSE /\ cycle' = cycle \o <<"command", "process">>
                  /\ vpc' = "llm"
                  /\ UNCHANGED <<is_listening, stream, last_spoken_text,
                                 in_conversation, response, playing>>
    /\ UNCHANGED <<audio_queue, now, vocab, leaked, session, discarded, chunk_vars,
                   sim_vars, main_vars, phrase_vars, wake_vars, end_command, timeout,
                   silence_timeout, c_exit, echo_vars, interrupted>>

\* lines 74-86: the command came back; the done phrase, then the bracket command
VoiceDispatch ==
    /\ vpc = "collect"
    /\ cpc = "ret"
    /\ CommandFrameGone
    /\ command' = c_ret
    /\ \E models \in ModelLists :
         LET special_response == process_command(c_ret, models)
         IN  IF Contains(done_phrase, Lower(c_ret))
             THEN /\ last_spoken_text' = speak(Goodbye)
                  /\ playing' = Vocalized(Goodbye)
                  /\ in_conversation' = FALSE
                  /\ cycle' = cycle \o <<"command", "say_goodbye">>
                  /\ vpc' = "top"
                  /\ UNCHANGED <<is_listening, stream, response>>
             ELSE IF c_ret = <<>>
             THEN /\ cycle' = cycle \o <<"command">>
                  /\ vpc' = "top"
                  /\ UNCHANGED <<is_listening, stream, last_spoken_text,
                                 in_conversation, response, playing>>
             ELSE IF special_response.kind = "exit"
             THEN \* SystemExit passes the finally clause (line 100) and ends the process
                  /\ cycle' = cycle \o <<"command", "process">>
                  /\ is_listening' = stop_listening.is_listening
                  /\ stream' = stop_listening.stream
                  /\ vpc' = "exited"
                  /\ UNCHANGED <<last_spoken_text, in_conversation, response, playing>>
             ELSE IF special_response.kind = "text"
             THEN /\ response' = special_response.text
                  /\ last_spoken_text' = speak(special_response.text)
                  /\ playing' = Vocalized(special_response.text)
                  /\ cycle' = cycle \o <<"command", "process", "say_special">>
                  /\ vpc' = "top"
                  /\ UNCHANGED <<is_listening, stream, in_conversation>>
             ELSE /\ cycle' = cycle \o <<"command", "process">>
                  /\ vpc' = "llm"
                  /\ UNCHANGED <<is_listening, stream, last_spoken_text,
                                 in_conversation, response, playing>>
    /\ UNCHANGED <<audio_queue, now, vocab, leaked, session, discarded, chunk_vars,
                   sim_vars, main_vars, phrase_vars, wake_vars, end_command, timeout,
                   silence_timeout, c_exit, echo_vars, interrupted>>

\* lines 88-92: the command goes to the LLM and the answer is spoken; speak(None)
\* raises in clean_response, which ends the loop through the finally clause
\* (line 100) and the handler of line 101
VoiceLLM ==
    /\ vpc = "llm"
    /\ \E o \in LLMOutcomes :
         LET r == send_to_llm(command, o)
         IN  /\ response' = r
             /\ IF r = None
                THEN /\ cycle' = cycle \o <<"llm">>
                     /\ is_listening' = stop_listening.is_listening
                     /\ stream' = stop_listening.stream
                     /\ vpc' = "cli"
                     /\ UNCHANGED <<last_spoken_text, playing>>
                ELSE /\ cycle' = cycle \o <<"llm", "say_response">>
                     /\ last_spoken_text' = speak(r)
                     /\ playing' = Vocalized(r)
                     /\ vpc' = "top"
                     /\ UNCHANGED <<is_listening, stream>>
    /\ UNCHANGED <<audio_queue, now, vocab, leaked, session, discarded, chunk_vars,
                   sim_vars, main_vars, phrase_vars, wake_vars, command_vars,
                   in_conversation, command, echo_vars, interrupted>>

\* line 27 of speech_output.py: `say` has finished and speak returns
SpeakDone ==
    /\ playing # None
    /\ playing' = None
    /\ UNCHANGED <<listener_vars, leaked, session, discarded, chunk_vars, now, vocab,
                   phrase_vars, wake_vars, command_vars, vpc, in_conversation, command,
                   response, cycle, echo_vars, sim_vars, main_vars, interrupted>>

\* VoiceRaised with the failure taken as passing: the loop starts over
VoiceRaisedRetries ==
    /\ vpc \in {"wake", "collect"}
    /\ wpc = "raised" \/ cpc = "raised"
    /\ WakeFrameGone
    /\ CommandFrameGone
    /\ vpc' = "top"
    /\ UNCHANGED <<listener_vars, now, vocab, leaked, session, discarded, chunk_vars,
                   sim_vars, main_vars, phrase_vars, end_command, timeout, silence_timeout,
                   c_exit, in_conversation, command, response, cycle, echo_vars, playing,
                   interrupted>>

\* an exception left listen_for_wake_word or listen_for_command: the finally clause
\* (line 100), then the fallback of lines 101-105
VoiceRaised ==
    /\ vpc \in {"wake", "collect"}
    /\ wpc = "raised" \/ cpc = "raised"
    /\ WakeFrameGone
    /\ CommandFrameGone
    /\ is_listening' = stop_listening.is_listening
    /\ stream' = stop_listening.stream
    /\ vpc' = "cli"
    /\ UNCHANGED <<audio_queue, last_spoken_text, now, vocab, leaked, session, discarded,
                   chunk_vars, sim_vars, main_vars, phrase_vars, end_command, timeout,
                   silence_timeout, c_exit, in_conversation, command, response, cycle,
                   echo_vars, playing, interrupted>>

\* llm_client.py lines 8-15 and 19: KeyboardInterrupt arrives while send_to_llm is in
\* list_models, whose bare except clause catches it; list_models returns [] and
\* send_to_llm goes on
VoiceInterruptInListModels ==
    /\ vpc = "llm"
    /\ ~interrupted
    /\ interrupted' = TRUE
    /\ UNCHANGED <<listener_vars, leaked, session, discarded, chunk_vars, now, vocab,
                   phrase_vars, wake_vars, command_vars, vpc, in_conversation, command,
                   response, cycle, playing, echo_vars, sim_vars, main_vars>>

\* lines 97-100: KeyboardInterrupt anywhere in the loop unwinds whatever is running
\* and stops capture
VoiceInterrupt ==
    /\ vpc \in {"top", "wake", "ack", "collect", "llm"}
    /\ playing' = None
    /\ interrupted' = TRUE
    /\ PhraseFrameGone
    /\ WakeFrameGone
    /\ CommandFrameGone
    /\ is_listening' = stop_listening.is_listening
    /\ stream' = stop_listening.stream
    /\ vpc' = "returned"
    /\ UNCHANGED <<audio_queue, last_spoken_text, now, vocab, leaked, session, discarded,
                   chunk_vars, sim_vars, main_vars, end_command, timeout, silence_timeout,
                   c_exit, in_conversation, command, response, cycle, echo_vars>>

Init ==
    /\ is_listening = FALSE
    /\ stream = "none"
    /\ audio_queue = <<>>
    /\ last_spoken_text = None
    /\ now = 0
    /\ vocab = VoiceVocab
    /\ ppc = "idle" /\ p_timeout = 0 /\ p_start = 0 /\ was_not_listening = FALSE
    /\ rec_partial = <<>> /\ p_ret = <<>> /\ p_result = NoResult
    /\ wpc = "idle" /\ wake_phrase = <<>> /\ wake_words = {} /\ w_text = <<>>
    /\ leaked = 0
    /\ session = IF is_listening THEN 1 ELSE 0
    /\ discarded = 0
    /\ next_id = 0 /\ fed = <<>> /\ buffered = <<>>
    /\ cpc = "idle"
    /\ end_command = go_phrase
    /\ timeout = VoiceTimeouts.command_timeout
    /\ silence_timeout = VoiceTimeouts.silence_timeout
    /\ full_command = <<>> /\ start_time = 0 /\ last_activity = 0
    /\ c_ret = <<>> /\ c_exit = "none" /\ accepted = <<>>
    /\ vpc = "start" /\ in_conversation = FALSE /\ command = <<>> /\ response = <<>>
    /\ cycle = <<>> /\ playing = None /\ interrupted = FALSE
    /\ e_spoken = None /\ e_text = None /\ e_ignored = FALSE
    /\ s_text1 = None /\ s_text2 = None /\ s_sim = None
    /\ mpc = "idle" /\ user_input = None /\ processed = Unprocessed
    /\ checked = None /\ sent = None

Next ==
    \/ AudioCallback
    \/ PhraseEnter
    \/ PhraseGetEmpty
    \/ PhraseGetData
    \/ PhraseTimeout
    \/ CommandEnter
    \/ CommandCheck
    \/ CommandGotText
    \/ CommandPhraseRaised
    \/ WakeEnter
    \/ WakeGetEmpty
    \/ WakeGetData
    \/ VoiceStart
    \/ VoiceTop
    \/ VoiceWakeReturned
    \/ VoiceAck
    \/ VoiceDispatch
    \/ VoiceLLM
    \/ SpeakDone
    \/ VoiceRaised
    \/ VoiceInterruptInListModels
    \/ VoiceInterrupt

Spec == Init /\ [][Next]_vars

-----------------------------------------------------------------------------
(* Properties of the voice loop (Spec) *)

\* the loop did e in its current turn
Did(e) == \E i \in 1..Len(cycle) : cycle[i] = e

\* what the loop did after it took the command in its current turn
AfterCommand ==
    LET at == CHOOSE i \in 1..Len(cycle) : cycle[i] = "command"
    IN  SubSeq(cycle, at + 1, Len(cycle))

\* the current turn of the loop is over, and not by an interrupt
TurnOver == Did("command") /\ vpc \in {"top", "cli", "exited"}

\* C1: the conversation, once active, is left only by a command that contains the
\* done phrase, and while it is active wake-word detection is neither started nor
\* running
C1_StaysActive ==
    [][/\ (in_conversation /\ ~in_conversation') =>
              /\ vpc = "collect" /\ cpc = "ret"
              /\ Contains(done_phrase, Lower(c_ret))
       /\ in_conversation' => wpc' = "idle"
       /\ (wpc # "call" /\ wpc' = "call") => ~in_conversation]_vars

\* a second turn of an active conversation collects a command, and this turn did
\* not wait for the wake word
C1_Witness ==
    /\ in_conversation /\ vpc = "collect" /\ cpc = "wait"
    /\ ~Did("wake")
    /\ wpc = "idle"

\* C2: listen_for_command runs only in an active conversation, listen_for_wake_word
\* only outside one, never both; listen_for_phrase's recognizer lives only inside
\* listen_for_command, so at most one recognition pass reads the queue
C2_OneListener ==
    /\ cpc # "idle" => (in_conversation /\ vpc = "collect")
    /\ wpc # "idle" => (~in_conversation /\ vpc = "wake")
    /\ ~(cpc # "idle" /\ wpc # "idle")
    /\ ppc # "idle" => (cpc = "wait" /\ wpc = "idle")

\* the conversation is active and a recognition pass of listen_for_command is
\* reading the queue
C2_Witness ==
    /\ in_conversation /\ cpc = "wait" /\ ppc = "loop" /\ wpc = "idle"
    /\ audio_queue # <<>>

\* C3: a command that contains the done phrase is answered by the farewell alone:
\* the conversation is left, and the command reaches neither process_command nor
\* send_to_llm
C3_DonePhrase ==
    (Did("command") /\ Contains(done_phrase, Lower(command))) =>
        /\ AfterCommand = <<"say_goodbye">>
        /\ ~in_conversation
        /\ last_spoken_text = Normalize(Goodbye)
        /\ response = <<>>

\* the command with the done phrase is also a bracket command, which
\* process_command would have answered
C3_Witness ==
    /\ Did("say_goodbye")
    /\ \A models \in ModelLists : process_command(command, models).kind # "none"

\* C4: after a pass that timed out with nothing heard, nothing is dispatched and
\* nothing is spoken, and the conversation goes on
C4_TimeoutDispatchesNothing ==
    (Did("command") /\ c_exit = "sentinel") =>
        /\ AfterCommand = <<>>
        /\ in_conversation
        /\ vpc = "top"

\* C5: a command that is not empty and holds no done phrase (the bracket command
\* exit, which ends the process, aside) goes to process_command, and to send_to_llm
\* only if that gave no response; when the turn is over one response has been
\* spoken and the conversation is still active
C5_OneResponse ==
    (/\ TurnOver
     /\ command # <<>>
     /\ ~Contains(done_phrase, Lower(command))
     /\ \A models \in ModelLists : process_command(command, models).kind # "exit") =>
        /\ AfterCommand \in {<<"process", "say_special">>,
                             <<"process", "llm", "say_response">>}
        /\ in_conversation
        /\ vpc = "top"
        /\ last_spoken_text = Normalize(clean_response(response))

\* punctuation marks of the texts the system speaks
Punctuation == {".", "?", "!", ",", ":", ";", "'"}

\* s lower-cased and trimmed, with the punctuation taken out
Unpunctuated(s) == SelectSeq(Strip(Lower(s)), LAMBDA x : x \notin Punctuation)

\* C14: after the loop has spoken, the echo memory holds that utterance and no
\* other, lower-cased, trimmed and without punctuation
C14_StoredNormalized ==
    /\ (TurnOver /\ (Did("say_special") \/ Did("say_response"))) =>
           last_spoken_text = Unpunctuated(clean_response(response))
    /\ (TurnOver /\ Did("say_goodbye")) => last_spoken_text = Unpunctuated(Goodbye)
    /\ (vpc = "collect" /\ Did("say_yes")) => last_spoken_text = Unpunctuated(Yes)

-----------------------------------------------------------------------------
(* _text_similarity on its own: one call with arguments of any case *)

\* texts whose letters differ in case only from letters of EchoTexts
SimPhrases == {<<"A">>, <<"b">>, <<"A", " ", "b">>}

\* the arguments of the call: a text, or None
SimTexts == EchoTexts \cup SimPhrases \cup {None}

\* lines 109-131: _text_similarity(s_text1, s_text2) is called and returns
SimCall ==
    /\ s_sim = None
    /\ s_sim' = text_similarity(s_text1, s_text2)
    /\ UNCHANGED <<listener_vars, now, vocab, leaked, session, discarded, chunk_vars,
                   phrase_vars, wake_vars, command_vars, voice_vars, echo_vars, s_text1,
                   s_text2, main_vars>>

InitSim ==
    /\ is_listening = FALSE
    /\ stream = "none"
    /\ audio_queue = <<>>
    /\ last_spoken_text = None
    /\ now = 0
    /\ vocab = {}
    /\ ppc = "idle" /\ p_timeout = 0 /\ p_start = 0 /\ was_not_listening = FALSE
    /\ rec_partial = <<>> /\ p_ret = <<>> /\ p_result = NoResult
    /\ wpc = "idle" /\ wake_phrase = <<>> /\ wake_words = {} /\ w_text = <<>>
    /\ leaked = 0
    /\ session = IF is_listening THEN 1 ELSE 0
    /\ discarded = 0
    /\ next_id = 0 /\ fed = <<>> /\ buffered = <<>>
    /\ cpc = "idle"
    /\ end_command = <<>>
    /\ timeout = 0
    /\ silence_timeout = 0
    /\ full_command = <<>> /\ start_time = 0 /\ last_activity = 0
    /\ c_ret = <<>> /\ c_exit = "none" /\ accepted = <<>>
    /\ vpc = "idle" /\ in_conversation = FALSE /\ command = <<>> /\ response = <<>>
    /\ cycle = <<>> /\ playing = None /\ interrupted = FALSE
    /\ e_spoken = None /\ e_text = None /\ e_ignored = FALSE
    /\ s_text1 \in SimTexts
    /\ s_text2 \in SimTexts
    /\ s_sim = None
    /\ mpc = "idle" /\ user_input = None /\ processed = Unprocessed
    /\ checked = None /\ sent = None

NextSim == SimCall

SpecSim == InitSim /\ [][NextSim]_vars

\* two fractions of the same value
SameValue(x, y) == x[1] * y[2] = y[1] * x[2]

\* the reference function on the two strings as they are: 0 if either is empty or
\* unset, 1 if the shorter is a substring of the longer, otherwise the common words
\* over the smaller number of words (0 where a string has no word at all)
ReferenceSimilarity(a, b) ==
    IF a = None \/ a = <<>> \/ b = None \/ b = <<>> THEN <<0, 1>>
    ELSE IF \/ Len(a) <= Len(b) /\ Contains(a, b)
            \/ Len(b) <= Len(a) /\ Contains(b, a) THEN <<1, 1>>
    ELSE IF Words(a) = {} \/ Words(b) = {} THEN <<0, 1>>
    ELSE <<Cardinality(Words(a) \cap Words(b)),
           Min(Cardinality(Words(a)), Cardinality(Words(b)))>>

\* a string in lower case; unset stays unset
Folded(t) == IF t = None THEN None ELSE Lower(t)

\* C12 as stated: _text_similarity(a, b) equals the reference function taken on a and
\* b as they are (the shorter a literal substring of the longer, the words compared
\* literally).  It does not: "A" and "a" give 1 where the reference gives 0.
C12_LiteralReference ==
    s_sim # None => SameValue(s_sim, ReferenceSimilarity(s_text1, s_text2))

\* C12: _text_similarity(a, b) equals the reference function taken on the two strings
\* in lower case, and the result is the same with the two arguments exchanged.
C12_FoldedReference ==
    s_sim # None =>
        /\ SameValue(s_sim, ReferenceSimilarity(Folded(s_text1), Folded(s_text2)))
        /\ SameValue(s_sim, text_similarity(s_text2, s_text1))

\* a call returned a value strictly between 0 and 1 for arguments of which one
\* holds an upper-case letter
C12_Witness ==
    /\ s_sim # None
    /\ 0 < s_sim[1]
    /\ s_sim[1] < s_sim[2]
    /\ s_text1 # Folded(s_text1)
-----------------------------------------------------------------------------
(* listen_for_command and the echo filter *)

\* text is classified as echo of the stored spoken text
IsEcho(text) == should_ignore_text(last_spoken_text, text)

\* C15: no text that listen_for_phrase returns, from a final result or from the
\* partial result at the timeout, is classified as echo of the stored spoken text
\* when it is returned, and no segment that listen_for_command appended to the
\* command is one.
C15_SegmentsFiltered ==
    /\ (ppc = "ret" /\ p_ret # <<>>) => ~IsEcho(p_ret)
    /\ \A i \in 1..Len(accepted) : ~IsEcho(accepted[i])

\* a segment has been appended to the command, and listen_for_phrase has just timed
\* out and returned nothing although the recognizer held a partial result, an echo
C15_Witness ==
    /\ accepted # <<>>
    /\ ppc = "ret"
    /\ p_ret = <<>>
    /\ Strip(rec_partial) # <<>>
    /\ IsEcho(Strip(rec_partial))
-----------------------------------------------------------------------------
(* listen_for_wake_word on its own: any of four wake phrases, capture running or
   not, a text spoken before or none *)

Up              == <<"u", "p">>
Listen          == <<"l", "i", "s", "t", "e", "n">>
HeyListenUp     == <<"h", "e", "y", " ", "l", "i", "s", "t", "e", "n", " ", "u", "p">>
OkHeyListenUp   == <<"o", "k", " ", "h", "e", "y", " ", "l", "i", "s", "t", "e", "n", " ", "u", "p">>
Hey             == <<"h", "e", "y">>
Ok              == <<"o", "k">>
HeyListen       == <<"h", "e", "y", " ", "l", "i", "s", "t", "e", "n">>
OkHey           == <<"o", "k", " ", "h", "e", "y">>

\* wake phrases of one, two, three and four words
WakePhrases == {Up, hi_phrase, HeyListenUp, OkHeyListenUp}

\* what the recognizer may answer while the wake word is awaited
ListenCapital   == <<"L", "i", "s", "t", "e", "n">>
Cup             == <<"c", "u", "p">>
GoodbyeListenUp == <<"g", "o", "o", "d", "b", "y", "e", " ", "l", "i", "s", "t", "e", "n", " ", "u", "p">>
WakeVocab == {hi_phrase, ListenCapital, Up, Cup, GoodbyeListenUp, Hey, Yes}

InitWake ==
    /\ is_listening \in BOOLEAN
    /\ stream = IF is_listening THEN "open" ELSE "none"
    /\ audio_queue = <<>>
    /\ last_spoken_text \in {None, Normalize(Goodbye)}
    /\ now = 0
    /\ vocab = WakeVocab
    /\ ppc = "idle" /\ p_timeout = 0 /\ p_start = 0 /\ was_not_listening = FALSE
    /\ rec_partial = <<>> /\ p_ret = <<>> /\ p_result = NoResult
    /\ wpc = "call" /\ wake_phrase \in WakePhrases /\ wake_words = {} /\ w_text = <<>>
    /\ leaked = 0
    /\ session = IF is_listening THEN 1 ELSE 0
    /\ discarded = 0
    /\ next_id = 0 /\ fed = <<>> /\ buffered = <<>>
    /\ cpc = "idle"
    /\ end_command = <<>>
    /\ timeout = 0
    /\ silence_timeout = 0
    /\ full_command = <<>> /\ start_time = 0 /\ last_activity = 0
    /\ c_ret = <<>> /\ c_exit = "none" /\ accepted = <<>>
    /\ vpc = "idle" /\ in_conversation = FALSE /\ command = <<>> /\ response = <<>>
    /\ cycle = <<>> /\ playing = None /\ interrupted = FALSE
    /\ e_spoken = None /\ e_text = None /\ e_ignored = FALSE
    /\ s_text1 = None /\ s_text2 = None /\ s_sim = None
    /\ mpc = "idle" /\ user_input = None /\ processed = Unprocessed
    /\ checked = None /\ sent = None

NextWake ==
    \/ AudioCallback
    \/ WakeEnter
    \/ WakeGetEmpty
    \/ WakeGetData

SpecWake == InitWake /\ [][NextWake]_vars

\* C16: a recognition result that is classified as echo of the most recently spoken
\* text never makes listen_for_wake_word report a detection.  w_text is the result
\* the function has just examined.
C16_EchoNeverWakes ==
    wpc = "ret" => ~should_ignore_text(last_spoken_text, w_text)

\* the variant set of each of the wake phrases, written out: the full phrase; its
\* first and last word if it has two words or more; its first two and last two
\* words if it has three or more
VariantsOf(phrase) ==
    CASE phrase = Up            -> {Up}
      [] phrase = hi_phrase     -> {hi_phrase, Listen, Up}
      [] phrase = HeyListenUp   -> {HeyListenUp, Hey, Up, HeyListen, hi_phrase}
      [] phrase = OkHeyListenUp -> {OkHeyListenUp, Ok, Up, OkHey, hi_phrase}

\* C17: listen_for_wake_word matches against exactly the variant set of its wake
\* phrase: once the set is built, and until the function returns, it is the full
\* phrase, plus the first and the last word of a phrase of at least 2 words, plus
\* the first two and the last two words of a phrase of at least 3 words.
C17_VariantSet ==
    wpc \in {"loop", "ret", "raised"} => wake_words = VariantsOf(wake_phrase)

\* the function waits with the variant set of a phrase of four words, which holds
\* five texts
C17_Witness ==
    /\ wpc = "loop"
    /\ wake_phrase = OkHeyListenUp
    /\ Cardinality(wake_words) = 5

\* text holds a variant of the wake phrase as a substring
HoldsVariant(text) == \E word \in VariantsOf(wake_phrase) : Contains(word, text)

\* the function is at its return statement
WakeReturns == wpc = "loop" /\ wpc' = "ret"

\* C18: listen_for_wake_word returns exactly at the first recognition result, partial
\* or final, whose lower-cased text holds a wake variant as a substring.  While it
\* waits, no result examined so far held a variant; when it has returned, the result
\* examined last holds one; with wake phrase 'listen up' it does not wait on after
\* 'listen up', 'listen' or 'up'; it returns only in a step that takes a chunk from
\* the queue, never in one where the queue is empty or only time passes; and after
\* the return it takes nothing more from the queue.
C18_ReturnsAtFirstMatch ==
    /\ [](wpc = "loop" => ~HoldsVariant(w_text))
    /\ [](wpc = "ret" => HoldsVariant(w_text))
    /\ []((wake_phrase = hi_phrase /\ w_text \in {hi_phrase, Listen, Up}) => wpc # "loop")
    /\ [][WakeReturns => /\ audio_queue # <<>>
                         /\ audio_queue' = Tail(audio_queue)]_vars
    /\ [][wpc = "ret" => /\ wpc' = "ret"
                         /\ w_text' = w_text
                         /\ Len(audio_queue') >= Len(audio_queue)]_vars

\* with wake phrase 'listen up' the function has returned, after time passed, upon
\* the result "Listen", lower-cased, and has left a chunk in the queue
C18_Witness ==
    /\ wake_phrase = hi_phrase
    /\ wpc = "ret"
    /\ w_text = Listen
    /\ now > 0
    /\ audio_queue # <<>>

\* C19 as stated: with wake phrase 'listen up' detection does not fire on text in
\* which neither 'listen' nor 'up' occurs as a word.  It does fire on "cup".
C19_NoWordNoWake ==
    (wake_phrase = hi_phrase /\ wpc = "ret") =>
        (Listen \in Words(w_text) \/ Up \in Words(w_text))

\* C19: with wake phrase 'listen up' detection does not fire on text in which
\* neither 'listen' nor 'up' occurs as a substring.
C19_NoSubstringNoWake ==
    (wake_phrase = hi_phrase /\ wpc = "ret") =>
        (Contains(Listen, w_text) \/ Contains(Up, w_text))

\* with wake phrase 'listen up' the function examined the unrelated text "yes" and
\* waits on
C19_Witness ==
    /\ wake_phrase = hi_phrase
    /\ wpc = "loop"
    /\ w_text = Yes
-----------------------------------------------------------------------------
(* The listener's capture on its own: start_listening, stop_listening and
   listen_for_phrase called one after the other, in any order *)

\* the streams dropped unclosed that a run is followed up to
MaxLeaked == 2
\* the capture sessions that a run is followed up to
MaxSessions == 3

\* no call of the listener is in progress
ListenerIdle ==
    /\ ppc \in {"idle", "ret", "raised"}
    /\ wpc \in {"idle", "ret", "raised"}

\* lines 44-70: start_listening() is called and returns or raises
CaptureStart ==
    /\ ListenerIdle
    /\ \E outcome \in StartOutcomes :
         LET r == start_listening(outcome)
         IN  /\ r.leaked <= MaxLeaked
             /\ r.session <= MaxSessions
             /\ is_listening' = r.is_listening
             /\ stream' = r.stream
             /\ audio_queue' = r.audio_queue
             /\ leaked' = r.leaked
             /\ session' = r.session
             /\ discarded' = r.discarded
             /\ UNCHANGED chunk_vars
    /\ UNCHANGED <<last_spoken_text, now, vocab, sim_vars, main_vars, phrase_vars,
                   wake_vars, command_vars, voice_vars, echo_vars>>

\* lines 72-84: stop_listening() is called
CaptureStop ==
    /\ ListenerIdle
    /\ is_listening' = stop_listening.is_listening
    /\ stream' = stop_listening.stream
    /\ UNCHANGED <<audio_queue, last_spoken_text, now, vocab, leaked, session, discarded,
                   chunk_vars, sim_vars, main_vars, phrase_vars, wake_vars, command_vars,
                   voice_vars, echo_vars>>

\* listen_for_phrase(timeout=1) is called
CapturePhrase ==
    /\ ListenerIdle
    /\ leaked < MaxLeaked
    /\ session < MaxSessions
    /\ ppc' = "call"
    /\ p_timeout' = PhrasePollSeconds * TicksPerSecond
    /\ p_ret' = <<>>
    /\ UNCHANGED <<listener_vars, now, vocab, leaked, session, discarded, chunk_vars,
                   sim_vars, main_vars, p_start, was_not_listening, rec_partial, p_result,
                   wake_vars, command_vars, voice_vars, echo_vars>>

InitCapture ==
    /\ is_listening = FALSE
    /\ stream = "none"
    /\ audio_queue = <<>>
    /\ last_spoken_text = None
    /\ now = 0
    /\ vocab = {Yes}
    /\ ppc = "idle" /\ p_timeout = 0 /\ p_start = 0 /\ was_not_listening = FALSE
    /\ rec_partial = <<>> /\ p_ret = <<>> /\ p_result = NoResult
    /\ wpc = "idle" /\ wake_phrase = <<>> /\ wake_words = {} /\ w_text = <<>>
    /\ leaked = 0
    /\ session = IF is_listening THEN 1 ELSE 0
    /\ discarded = 0
    /\ next_id = 0 /\ fed = <<>> /\ buffered = <<>>
    /\ cpc = "idle"
    /\ end_command = <<>>
    /\ timeout = 0
    /\ silence_timeout = 0
    /\ full_command = <<>> /\ start_time = 0 /\ last_activity = 0
    /\ c_ret = <<>> /\ c_exit = "none" /\ accepted = <<>>
    /\ vpc = "idle" /\ in_conversation = FALSE /\ command = <<>> /\ response = <<>>
    /\ cycle = <<>> /\ playing = None /\ interrupted = FALSE
    /\ e_spoken = None /\ e_text = None /\ e_ignored = FALSE
    /\ s_text1 = None /\ s_text2 = None /\ s_sim = None
    /\ mpc = "idle" /\ user_input = None /\ processed = Unprocessed
    /\ checked = None /\ sent = None

NextCapture ==
    \/ AudioCallback
    \/ CaptureStart
    \/ CaptureStop
    \/ CapturePhrase
    \/ PhraseEnter
    \/ PhraseGetEmpty
    \/ PhraseGetData
    \/ PhraseTimeout

SpecCapture == InitCapture /\ [][NextCapture]_vars

\* the streams that are open: the one the listener holds, started or not, and those
\* it dropped without closing them
OpenStreams == leaked + (IF stream = "none" THEN 0 ELSE 1)

\* C20: start_listening while capture is running and stop_listening while capture is
\* stopped change nothing, and after any sequence of start and stop calls at most one
\* stream is open.  The last part fails: a stream whose start() failed stays open, and
\* the next start_listening opens another.
C20_AtMostOneStream == OpenStreams <= 1

\* the part of C20 that holds: start_listening while capture is running opens no
\* stream and leaves the queue as it is, stop_listening while capture is stopped
\* changes nothing
C20_Idempotent ==
    /\ [][(CaptureStart /\ is_listening) => UNCHANGED <<listener_vars, leaked>>]_vars
    /\ [][(CaptureStop /\ ~is_listening) => UNCHANGED <<listener_vars, leaked>>]_vars

-----------------------------------------------------------------------------
(* a failed start *)

\* the call of start_listening in listen_for_phrase raised: no result was looked at
StartRaised == ppc = "raised" /\ p_result = NoResult

\* C21: if opening or starting the input stream fails inside start_listening, the
\* error reaches the caller and capture is left stopped (is_listening false, no
\* running stream), so that a later start_listening opens a stream again
C21_FailedStartStopped ==
    /\ [](\A outcome \in StartOutcomes :
            (~is_listening /\ outcome # "ok") => start_listening(outcome).raised)
    /\ [][(PhraseEnter /\ ppc' = "raised") =>
            /\ ~is_listening'
            /\ stream' # "open"
            /\ start_listening("ok").is_listening'
            /\ start_listening("ok").stream' = "open"]_vars
    /\ [][(CaptureStart /\ ~is_listening) =>
            \/ is_listening' /\ stream' = "open"
            \/ ~is_listening' /\ stream' # "open"]_vars

\* a start failed in stream.start(): capture is stopped and holds a stream that
\* does not run
C21_Witness == StartRaised /\ ~is_listening /\ stream = "unstarted"

-----------------------------------------------------------------------------
(* chunks of an earlier capture session *)

\* every queued chunk was captured in the current capture session
QueueIsCurrent == \A i \in 1..Len(audio_queue) : audio_queue[i].session = session

\* C22: whenever start_listening takes capture from stopped to running, every chunk
\* that was in the queue before the call is discarded before the stream produces, so
\* no chunk captured in an earlier capture session is fed to a recognizer in the new one
C22_NoStaleChunk ==
    /\ [][(~is_listening /\ is_listening') => audio_queue' = <<>>]_vars
    /\ [](is_listening => QueueIsCurrent)
    /\ [][PhraseGetData => Head(audio_queue).session = session]_vars

\* a start threw chunks of an earlier session away, and listen_for_phrase is about to
\* feed a chunk of the new session to its recognizer
C22_Witness ==
    /\ ppc = "loop"
    /\ session >= 2
    /\ discarded > 0
    /\ audio_queue # <<>>

-----------------------------------------------------------------------------
(* listen_for_phrase and the capture it finds *)

\* a step in which a call of listen_for_phrase ends, by a return or by an exception
PhraseExits == ppc \in {"call", "loop"} /\ ppc' \in {"ret", "raised"}

\* C23: listen_for_phrase leaves the capture state as it found it on every exit path
\* (final result, timeout, exception): capture that was running on entry is running
\* on exit, and capture that listen_for_phrase started itself is stopped on exit
C23_CaptureAsFound ==
    /\ [][PhraseEnter => was_not_listening' = ~is_listening]_vars
    /\ [](ppc = "loop" => is_listening /\ stream = "open")
    /\ [][PhraseExits =>
            /\ is_listening' = ~was_not_listening'
            /\ is_listening' => stream' = "open"
            /\ ~is_listening' => stream' # "open"]_vars

\* listen_for_phrase started capture itself, an exception ended it in the loop, and
\* capture is stopped again
C23_Witness ==
    /\ ppc = "raised"
    /\ p_result.kind = "malformed"
    /\ was_not_listening
    /\ ~is_listening
    /\ stream = "none"

-----------------------------------------------------------------------------
(* what listen_for_phrase returns *)

\* a result that ends listen_for_phrase: final, with text, and no echo
Returnable(result) ==
    /\ result.kind = "final"
    /\ result.text # <<>>
    /\ ~IsEcho(result.text)

\* the recognizer's partial result, trimmed, or nothing if it is an echo
PartialAtTimeout ==
    LET partial_text == Strip(rec_partial)
    IN  IF partial_text # <<>> /\ ~IsEcho(partial_text) THEN partial_text ELSE <<>>

\* C24: listen_for_phrase(timeout) returns (a) the text of the first final non-empty
\* result that is no echo, if one arrives before the timeout, (b) otherwise, when the
\* timeout elapses, the partial result the recognizer holds then (what it heard since
\* its last final result), if that is non-empty and no echo, and (c) the empty string
\* otherwise
C24_ReturnValue ==
    /\ [](ppc = "loop" => ~Returnable(p_result))
    /\ [][(ppc = "loop" /\ ppc' = "ret") =>
            IF now - p_start < p_timeout
            THEN Returnable(p_result') /\ p_ret' = p_result'.text
            ELSE p_ret' = PartialAtTimeout]_vars

\* the timeout elapsed and the partial result heard last was returned
C24_Witness ==
    /\ ppc = "ret"
    /\ p_result.kind = "partial"
    /\ p_ret # <<>>
    /\ p_ret = p_result.text
    /\ now - p_start >= p_timeout

\* C24 as stated, clause (c): the empty string is returned only when no speech at
\* all was captured, so never after a result with text
C24_EmptyOnlyWithoutSpeech ==
    (ppc = "ret" /\ p_ret = <<>>) => (p_result.text = <<>> /\ Strip(rec_partial) = <<>>)

-----------------------------------------------------------------------------
(* the utterance and the echo memory *)

\* the kind of utterance the loop made last in its current turn
LastSaid ==
    LET said == SelectSeq(cycle, LAMBDA e : e \in {"say_yes", "say_goodbye",
                                                   "say_special", "say_response"})
    IN  IF said = <<>> THEN "" ELSE said[Len(said)]

\* C25: every time the voice loop speaks (acknowledgement, farewell, bracket
\* response, LLM response), the text that is vocalized, which is the text with its
\* tags stripped, is what the echo memory records, and it is recorded when playback
\* starts, so that it is the stored text for whatever is recognized afterwards
C25_RecordedBeforePlayback ==
    /\ [](playing # None => last_spoken_text = set_last_spoken(None, playing))
    /\ [](playing # None =>
            /\ LastSaid \in {"say_yes", "say_goodbye", "say_special", "say_response"}
            /\ LastSaid = "say_yes" => playing = clean_response(Yes)
            /\ LastSaid = "say_goodbye" => playing = clean_response(Goodbye)
            /\ LastSaid \in {"say_special", "say_response"} =>
                   playing = clean_response(response))
    /\ [][last_spoken_text' # last_spoken_text => playing' # None]_vars

\* an LLM response with a tag in it is being vocalized without the tag
C25_Witness ==
    /\ playing # None
    /\ LastSaid = "say_response"
    /\ playing # response
    /\ Len(playing) < Len(response)

-----------------------------------------------------------------------------
(* main and cli_mode: the typed path to process_command and send_to_llm *)

Dance == <<"d", "a", "n", "c", "e">>

\* "Hocus Pocus List Models Abracadabra"
ListCommandCapitals ==
    <<"H", "o", "c", "u", "s", " ", "P", "o", "c", "u", "s", " ", "L", "i", "s", "t",
      " ", "M", "o", "d", "e", "l", "s", " ", "A", "b", "r", "a", "c", "a", "d", "a",
      "b", "r", "a">>

\* "hocus pocus dance abracadabra"
DanceCommand == pre_command \o <<" ">> \o Dance \o <<" ">> \o post_command

\* "hocus pocusabracadabra"
AdjacentCommand == pre_command \o post_command

\* "hocus pocusabracadabra list models abracadabra"
AdjacentListCommand ==
    pre_command \o post_command \o <<" ">> \o ListModels \o <<" ">> \o post_command

\* "abracadabra hocus pocus"
PostBeforePre == post_command \o <<" ">> \o pre_command

\* " Exit "
ExitPadded == <<" ", "E", "x", "i", "t", " ">>

\* what the user may type at the prompt
CliInputs == {<<>>, Exit, ExitPadded, LightsOn, ListCommand, ListCommandCapitals,
              ExitCommand, DanceCommand, AdjacentCommand, AdjacentListCommand,
              PostBeforePre}

\* the command lines main is started with: --command, the words of text joined by
\* blanks, --cli, and whether the voice modules could be imported
MainArgs ==
    [command : {None, ListModels, Dance},
     text : {<<>>, LightsOn, ListCommand, AdjacentCommand},
     cli : BOOLEAN,
     voice_available : BOOLEAN]

\* secretfriend.py lines 656-699: main decides which mode runs
MainDispatch ==
    /\ mpc = "main"
    /\ \E args \in MainArgs :
         IF args.command # None
         THEN /\ mpc' = "done"
              /\ UNCHANGED user_input
         ELSE IF args.text # <<>> /\ ~args.cli
         THEN /\ mpc' = "direct"
              /\ user_input' = args.text
         ELSE IF args.cli \/ ~args.voice_available
         THEN /\ mpc' = IF args.text # <<>> THEN "initial" ELSE "prompt"
              /\ user_input' = IF args.text # <<>> THEN args.text ELSE user_input
         ELSE /\ mpc' = "voice"
              /\ UNCHANGED user_input
    /\ UNCHANGED <<listener_vars, leaked, session, discarded, chunk_vars, now, vocab,
                   phrase_vars, wake_vars, command_vars, voice_vars, echo_vars, sim_vars,
                   processed, checked, sent>>

\* the text goes to send_to_llm and the answer to speak; speak(None) raises in
\* clean_response, and nothing is vocalized
SendAndSpeak ==
    /\ sent' = user_input
    /\ \E o \in LLMOutcomes :
         LET r == send_to_llm(user_input, o)
         IN  /\ response' = r
             /\ playing' = IF r = None THEN None ELSE Vocalized(r)

\* secretfriend.py lines 673-680: the direct query
MainDirectQuery ==
    /\ mpc = "direct"
    /\ SendAndSpeak
    /\ mpc' = "done"
    /\ UNCHANGED <<listener_vars, leaked, session, discarded, chunk_vars, now, vocab,
                   phrase_vars, wake_vars, command_vars, vpc, in_conversation, command,
                   cycle, echo_vars, sim_vars, user_input, processed, checked, interrupted>>

\* secretfriend.py lines 690-697: voice_mode returns, or raises and main falls back
\* to cli_mode
MainVoiceEnds ==
    /\ mpc = "voice"
    /\ mpc' \in {"done", "prompt"}
    /\ UNCHANGED <<listener_vars, leaked, session, discarded, chunk_vars, now, vocab,
                   phrase_vars, wake_vars, command_vars, voice_vars, echo_vars, sim_vars,
                   user_input, processed, checked, sent>>

\* cli_mode.py lines 46-47: cli_mode_with_initial_text looks at its text
CliInitialText ==
    /\ mpc = "initial"
    /\ mpc' = IF user_input # <<>> THEN "process" ELSE "prompt"
    /\ UNCHANGED <<listener_vars, leaked, session, discarded, chunk_vars, now, vocab,
                   phrase_vars, wake_vars, command_vars, voice_vars, echo_vars, sim_vars,
                   user_input, processed, checked, sent>>

\* cli_mode.py lines 23-29: a line is read and trimmed; 'exit' in any case ends the
\* loop, an empty line is passed over
CliRead ==
    /\ mpc = "prompt"
    /\ playing = None
    /\ \E line \in CliInputs :
         /\ user_input' = Strip(line)
         /\ mpc' = IF Lower(Strip(line)) = Exit THEN "done"
                   ELSE IF Strip(line) # <<>> THEN "process"
                   ELSE "prompt"
    /\ processed' = Unprocessed
    /\ checked' = None
    /\ sent' = None
    /\ UNCHANGED <<listener_vars, leaked, session, discarded, chunk_vars, now, vocab,
                   phrase_vars, wake_vars, command_vars, voice_vars, echo_vars, sim_vars>>

\* cli_mode.py lines 31-34 and 49-52: process_command is called on the text; its
\* answer is spoken, sys.exit(0) ends the process, None sends the text on
CliProcess ==
    /\ mpc = "process"
    /\ checked' = user_input
    /\ \E models \in ModelLists :
         LET special_response == process_command(user_input, models)
         IN  /\ processed' = special_response
             /\ CASE special_response.kind = "exit" ->
                       /\ mpc' = "done"
                       /\ UNCHANGED <<response, playing>>
                  [] special_response.kind = "text" ->
                       /\ mpc' = "prompt"
                       /\ response' = special_response.text
                       /\ playing' = Vocalized(special_response.text)
                  [] OTHER ->
                       /\ mpc' = "send"
                       /\ UNCHANGED <<response, playing>>
    /\ UNCHANGED <<listener_vars, leaked, session, discarded, chunk_vars, now, vocab,
                   phrase_vars, wake_vars, command_vars, vpc, in_conversation, command,
                   cycle, echo_vars, sim_vars, user_input, sent, interrupted>>

\* cli_mode.py lines 36-40 and 54-58: the text goes to the LLM and the answer is
\* spoken; without an answer speak raises and cli_mode ends
CliSend ==
    /\ mpc = "send"
    /\ SendAndSpeak
    /\ mpc' = IF response' = None THEN "done" ELSE "prompt"
    /\ UNCHANGED <<listener_vars, leaked, session, discarded, chunk_vars, now, vocab,
                   phrase_vars, wake_vars, command_vars, vpc, in_conversation, command,
                   cycle, echo_vars, sim_vars, user_input, processed, checked, interrupted>>

InitMain ==
    /\ is_listening = FALSE
    /\ stream = "none"
    /\ audio_queue = <<>>
    /\ last_spoken_text = None
    /\ now = 0
    /\ vocab = {}
    /\ ppc = "idle" /\ p_timeout = 0 /\ p_start = 0 /\ was_not_listening = FALSE
    /\ rec_partial = <<>> /\ p_ret = <<>> /\ p_result = NoResult
    /\ wpc = "idle" /\ wake_phrase = <<>> /\ wake_words = {} /\ w_text = <<>>
    /\ leaked = 0
    /\ session = 0
    /\ discarded = 0
    /\ next_id = 0 /\ fed = <<>> /\ buffered = <<>>
    /\ cpc = "idle"
    /\ end_command = <<>>
    /\ timeout = 0
    /\ silence_timeout = 0
    /\ full_command = <<>> /\ start_time = 0 /\ last_activity = 0
    /\ c_ret = <<>> /\ c_exit = "none" /\ accepted = <<>>
    /\ vpc = "idle" /\ in_conversation = FALSE /\ command = <<>> /\ response = <<>>
    /\ cycle = <<>> /\ playing = None /\ interrupted = FALSE
    /\ e_spoken = None /\ e_text = None /\ e_ignored = FALSE
    /\ s_text1 = None /\ s_text2 = None /\ s_sim = None
    /\ mpc = "main" /\ user_input = None /\ processed = Unprocessed
    /\ checked = None /\ sent = None

NextMain ==
    \/ MainDispatch
    \/ MainDirectQuery
    \/ MainVoiceEnds
    \/ CliInitialText
    \/ CliRead
    \/ CliProcess
    \/ CliSend
    \/ SpeakDone

SpecMain == InitMain /\ [][NextMain]_vars

-----------------------------------------------------------------------------
(* bracket commands on the typed path *)

\* the text, lower-cased and trimmed, holds the pre-phrase and, later and after at
\* least one more character, the post-phrase
BracketInput(text) ==
    LET lowered == Strip(Lower(text))
    IN  \E i \in Occurrences(pre_command, lowered), j \in Occurrences(post_command, lowered) :
          j > i + Len(pre_command)

\* C26: any input that holds the pre-phrase followed later by the post-phrase is
\* treated by process_command as a control command ('list models', 'exit', or a
\* message for an unknown command); in no such case does process_command return None.
\* This fails for a text in which a post-phrase follows the first pre-phrase directly.
C26_BracketNeverNone ==
    (checked # None /\ BracketInput(checked)) => processed.kind \in {"text", "exit"}

\* what does hold: process_command returns None on a bracket input only if a
\* post-phrase begins where the first pre-phrase ends
C26_NoneOnlyIfAdjacent ==
    (checked # None /\ BracketInput(checked) /\ processed.kind = "none") =>
        LET lowered == Strip(Lower(checked))
            start_idx == Find(pre_command, lowered, 0) + Len(pre_command)
        IN  Find(post_command, lowered, start_idx) = start_idx

\* C27: the bracket-command check runs before LLM dispatch on every path: every text
\* that reaches send_to_llm was given to process_command just before, which returned
\* no response.  This fails on main's direct query, which is sent unchecked.
C27_CheckedBeforeSent ==
    sent # None => (checked = sent /\ processed.kind = "none")

\* what does hold: cli_mode and cli_mode_with_initial_text send a text on only after
\* process_command returned None on it
C27_CliChecksFirst ==
    [][CliSend => (checked = user_input /\ processed.kind = "none"
                   /\ sent' = user_input)]_vars

\* and so does the voice loop, whatever list_models returns
C27_VoiceChecksFirst ==
    vpc = "llm" => \A models \in ModelLists : process_command(command, models).kind = "none"

-----------------------------------------------------------------------------
(* interrupts *)

\* C28: an interrupt signal that arrives in any state of the voice loop (waiting for
\* the wake word, speaking, collecting a command, querying the LLM) ends the loop,
\* with capture stopped when voice_mode returns and without the fallback to CLI
\* mode.  This fails while send_to_llm is in list_models, which swallows the signal.
C28_InterruptEndsLoop ==
    interrupted => (vpc = "returned" /\ ~is_listening /\ stream # "open")

\* what does hold: an interrupt that reaches voice_mode's handler ends the loop with
\* capture stopped, no stream running, and cli_mode not entered
C28_CaughtInterruptStops ==
    /\ [][VoiceInterrupt => (vpc' = "returned" /\ ~is_listening' /\ stream' # "open")]_vars
    /\ [][vpc = "returned" => vpc' = "returned"]_vars

-----------------------------------------------------------------------------
(* the audio device does not open *)

\* the first start_listening of voice_mode, in listen_for_wake_word, has raised
FirstStartRaised == vpc = "wake" /\ wpc = "raised" /\ session = 0

\* nothing was recognized and nothing was said
NothingHeard ==
    /\ audio_queue = <<>>
    /\ p_result = NoResult
    /\ w_text = <<>>
    /\ accepted = <<>>
    /\ last_spoken_text = None
    /\ ~Did("collect")
    /\ ~Did("command")

\* C29: if the audio device fails to open (the listener's construction or the first
\* start_listening raises), voice mode takes it as a fatal initialization error: the
\* loop does no wake detection and no command collection, capture is left stopped,
\* and control passes to CLI mode
C29_OpenFailureIsFatal ==
    /\ [](session = 0 => (~is_listening /\ stream # "open" /\ NothingHeard))
    /\ [][(vpc = "start" /\ vpc' # "top") => vpc' = "cli"]_vars
    /\ [][(FirstStartRaised /\ vpc' # vpc) =>
            /\ vpc' \in {"cli", "returned"}
            /\ session' = 0]_vars
    /\ [][(FirstStartRaised /\ ~VoiceInterrupt) =>
            (vpc' = "cli" \/ UNCHANGED <<vpc, wpc, session>>)]_vars
    /\ [][(vpc = "cli" /\ session = 0) => UNCHANGED <<vpc, session>>]_vars

\* the first start_listening failed in stream.start(), and voice_mode has passed
\* control to cli_mode with capture stopped
C29_Witness ==
    /\ vpc = "cli"
    /\ session = 0
    /\ cycle = <<"wake">>
    /\ ~is_listening
    /\ stream = "unstarted"

-----------------------------------------------------------------------------
(* payloads that are no JSON *)

\* C30: a decode error on a malformed partial or final payload is never fatal: in
\* listen_for_phrase and listen_for_wake_word it counts as no text in this cycle and
\* the loop goes on listening; it ends neither wake detection nor command collection
\* nor the voice loop.  This fails: json.loads raises and nothing catches it before
\* voice_mode's fallback to cli_mode.
C30_DecodeErrorNotFatal ==
    /\ p_result.kind = "malformed" => (ppc = "loop" /\ cpc = "wait" /\ vpc = "collect")
    \* listen_for_wake_word is left by an exception only if capture did not start
    /\ wpc = "raised" => session = 0

-----------------------------------------------------------------------------
(* the backend fails *)

\* C31: send_to_llm returns a text for every backend outcome (connection failure,
\* a status other than 200 on both endpoints, unparsable body), and the loop speaks
\* it like any other response and stays in the conversation.  This fails when both
\* endpoints answer with a status other than 200: send_to_llm returns None.
C31_BackendFailureSpoken ==
    /\ vpc = "llm" => \A o \in LLMOutcomes : send_to_llm(command, o) # None
    /\ (TurnOver /\ Did("llm")) =>
           /\ response # None
           /\ Did("say_response")
           /\ vpc = "top"
           /\ in_conversation

\* what does hold: when a connection fails or the second body cannot be parsed,
\* a fixed text is returned, spoken, and the conversation stays active
C31_TextIsSpoken ==
    (TurnOver /\ Did("llm") /\ response # None) =>
        /\ Did("say_response")
        /\ vpc = "top"
        /\ in_conversation
        /\ last_spoken_text = set_last_spoken(None, clean_response(response))
-----------------------------------------------------------------------------
(* The producer and the consumers of the queue: the stream's callback enqueues
   numbered chunks while listen_for_phrase and listen_for_wake_word, called one
   after the other, dequeue them *)

\* listen_for_wake_word(listener, wake_phrase) is called
CaptureWake ==
    /\ ListenerIdle
    /\ leaked < MaxLeaked
    /\ session < MaxSessions
    /\ wpc' = "call"
    /\ wake_phrase' = Up
    /\ wake_words' = {}
    /\ w_text' = <<>>
    /\ UNCHANGED <<listener_vars, now, vocab, leaked, session, discarded, chunk_vars,
                   sim_vars, main_vars, phrase_vars, command_vars, voice_vars, echo_vars>>

InitQueue ==
    /\ is_listening = FALSE
    /\ stream = "none"
    /\ audio_queue = <<>>
    /\ last_spoken_text = None
    /\ now = 0
    /\ vocab = {Yes, Up}
    /\ ppc = "idle" /\ p_timeout = 0 /\ p_start = 0 /\ was_not_listening = FALSE
    /\ rec_partial = <<>> /\ p_ret = <<>> /\ p_result = NoResult
    /\ wpc = "idle" /\ wake_phrase = <<>> /\ wake_words = {} /\ w_text = <<>>
    /\ leaked = 0
    /\ session = 0
    /\ discarded = 0
    /\ next_id = 1 /\ fed = <<>> /\ buffered = <<>>
    /\ cpc = "idle"
    /\ end_command = <<>>
    /\ timeout = 0
    /\ silence_timeout = 0
    /\ full_command = <<>> /\ start_time = 0 /\ last_activity = 0
    /\ c_ret = <<>> /\ c_exit = "none" /\ accepted = <<>>
    /\ vpc = "idle" /\ in_conversation = FALSE /\ command = <<>> /\ response = <<>>
    /\ cycle = <<>> /\ playing = None /\ interrupted = FALSE
    /\ e_spoken = None /\ e_text = None /\ e_ignored = FALSE
    /\ s_text1 = None /\ s_text2 = None /\ s_sim = None
    /\ mpc = "idle" /\ user_input = None /\ processed = Unprocessed
    /\ checked = None /\ sent = None

NextQueue ==
    \/ AudioCallback
    \/ CapturePhrase
    \/ PhraseEnter
    \/ PhraseGetEmpty
    \/ PhraseGetData
    \/ PhraseTimeout
    \/ CaptureWake
    \/ WakeEnter
    \/ WakeGetEmpty
    \/ WakeGetData

SpecQueue == InitQueue /\ [][NextQueue]_vars

\* the numbers in s grow from each element to the next
Increasing(s) == \A i \in 1..Len(s) : \A j \in 1..Len(s) : i < j => s[i] < s[j]

\* the numbers of the chunks in the queue, front first
Queued == [i \in 1..Len(audio_queue) |-> audio_queue[i].id]

\* a step of one of the two consuming loops that takes a chunk
Dequeues == PhraseGetData \/ WakeGetData

\* C32 (as the code has it): the callback changes nothing but the queue; a consuming
\* loop takes the chunk at the front of the queue, removes it and feeds it to its
\* recognizer; the chunks fed to recognizers, followed by the chunks still queued,
\* are in the order the callback numbered them, so no chunk is fed twice and none is
\* fed out of order.  A chunk may be fed to no recognizer at all
C32_FifoAtMostOnce ==
    /\ [](Increasing(fed \o Queued) /\ \A i \in 1..Len(fed \o Queued) :
                                          (fed \o Queued)[i] < next_id)
    /\ [][AudioCallback => UNCHANGED <<is_listening, stream, last_spoken_text, fed,
                                       phrase_vars, wake_vars>>]_vars
    /\ [][Dequeues => /\ audio_queue' = Tail(audio_queue)
                      /\ fed' = Append(fed, Head(audio_queue).id)]_vars

\* both loops have been fed chunks, and chunks wait in the queue
C32_Witness ==
    /\ Len(fed) >= 2
    /\ audio_queue # <<>>
    /\ wpc = "ret"
    /\ p_result # NoResult

\* C32 (as stated): every chunk the callback enqueued has been fed to a recognizer
\* or waits in the queue to be fed
C32_EveryChunkFed == Len(fed) + Len(audio_queue) = next_id - 1
-----------------------------------------------------------------------------
(* Termination of listen_for_command and of the listen_for_phrase polls it makes,
   when the callback delivers a bounded number of chunks and then none *)

\* the overall timeouts whose last poll ends before the clock of a run does
LiveTimeouts ==
    {t \in 0..MaxTimeout : (t + PhrasePollSeconds) * TicksPerSecond <= MaxTime}

InitLive ==
    /\ is_listening = TRUE
    /\ stream = "open"
    /\ audio_queue = <<>>
    /\ last_spoken_text = None
    /\ now = 0
    /\ vocab = {Yes, go_phrase}
    /\ ppc = "idle" /\ p_timeout = 0 /\ p_start = 0 /\ was_not_listening = FALSE
    /\ rec_partial = <<>> /\ p_ret = <<>> /\ p_result = NoResult
    /\ wpc = "idle" /\ wake_phrase = <<>> /\ wake_words = {} /\ w_text = <<>>
    /\ leaked = 0
    /\ session = 1
    /\ discarded = 0
    /\ next_id = 1 /\ fed = <<>> /\ buffered = <<>>
    /\ cpc = "call"
    /\ end_command = go_phrase
    /\ timeout \in LiveTimeouts
    /\ silence_timeout \in {1, MaxTimeout}
    /\ full_command = <<>> /\ start_time = 0 /\ last_activity = 0
    /\ c_ret = <<>> /\ c_exit = "none" /\ accepted = <<>>
    /\ vpc = "idle" /\ in_conversation = FALSE /\ command = <<>> /\ response = <<>>
    /\ cycle = <<>> /\ playing = None /\ interrupted = FALSE
    /\ e_spoken = None /\ e_text = None /\ e_ignored = FALSE
    /\ s_text1 = None /\ s_text2 = None /\ s_sim = None
    /\ mpc = "idle" /\ user_input = None /\ processed = Unprocessed
    /\ checked = None /\ sent = None

\* the steps of PhraseTimeout with the choice between its three exits left open:
\* the deadline has passed and the loop is left, by returning the partial result,
\* by returning the empty string or by an exception of json.loads
PhraseTimeoutStep ==
    /\ ppc = "loop"
    /\ ~(now - p_start < p_timeout)
    /\ \/ /\ p_result' = [kind |-> "malformed", text |-> <<>>]
          /\ PhraseRaise
       \/ /\ UNCHANGED p_result
          /\ \E value \in {Strip(rec_partial), <<>>} : PhraseReturn(value)
    /\ UNCHANGED <<audio_queue, last_spoken_text, now, vocab, leaked, session, discarded,
                   chunk_vars, sim_vars, main_vars, p_timeout, p_start, was_not_listening,
                   rec_partial, wake_vars, command_vars, voice_vars, echo_vars>>

\* a step of the thread that runs listen_for_command
CollectStep ==
    \/ PhraseEnter
    \/ PhraseGetEmpty
    \/ PhraseGetData
    \/ PhraseTimeoutStep
    \/ CommandEnter
    \/ CommandCheck
    \/ CommandGotText
    \/ CommandPhraseRaised

\* the thread that runs listen_for_command is scheduled as long as it can take a
\* step; the callback runs when the device has a chunk, which need never be
SpecLive == InitLive /\ [][NextCollect]_vars /\ WF_vars(CollectStep)

\* C33: listen_for_command ends, by a return or by an exception, and so does every
\* listen_for_phrase poll it starts, whether chunks arrive or not
C33_BoundedWaits ==
    /\ <>(cpc \in {"ret", "raised"})
    /\ (ppc \in {"call", "loop"}) ~> (ppc \in {"idle", "ret", "raised"})

\* listen_for_command has returned the sentinel and no chunk ever arrived
C33_Witness ==
    /\ cpc = "ret"
    /\ c_exit = "sentinel"
    /\ next_id = 1
    /\ fed = <<>>
    /\ now > 0
-----------------------------------------------------------------------------
(* The voice loop with numbered chunks: what becomes of the chunks captured
   while `say` is running *)

SpeakVocab == {hi_phrase, go_phrase}

InitSpeak ==
    /\ is_listening = FALSE
    /\ stream = "none"
    /\ audio_queue = <<>>
    /\ last_spoken_text = None
    /\ now = 0
    /\ vocab = SpeakVocab
    /\ ppc = "idle" /\ p_timeout = 0 /\ p_start = 0 /\ was_not_listening = FALSE
    /\ rec_partial = <<>> /\ p_ret = <<>> /\ p_result = NoResult
    /\ wpc = "idle" /\ wake_phrase = <<>> /\ wake_words = {} /\ w_text = <<>>
    /\ leaked = 0
    /\ session = 0
    /\ discarded = 0
    /\ next_id = 1 /\ fed = <<>> /\ buffered = <<>>
    /\ cpc = "idle"
    /\ end_command = go_phrase
    /\ timeout = VoiceTimeouts.command_timeout
    /\ silence_timeout = VoiceTimeouts.silence_timeout
    /\ full_command = <<>> /\ start_time = 0 /\ last_activity = 0
    /\ c_ret = <<>> /\ c_exit = "none" /\ accepted = <<>>
    /\ vpc = "start" /\ in_conversation = FALSE /\ command = <<>> /\ response = <<>>
    /\ cycle = <<>> /\ playing = None /\ interrupted = FALSE
    /\ e_spoken = None /\ e_text = None /\ e_ignored = FALSE
    /\ s_text1 = None /\ s_text2 = None /\ s_sim = None
    /\ mpc = "idle" /\ user_input = None /\ processed = Unprocessed
    /\ checked = None /\ sent = None

SpecSpeak == InitSpeak /\ [][Next]_vars

\* a listening operation is in its loop
Listening == ppc = "loop" \/ wpc = "loop"

-----------------------------------------------------------------------------
\* C35: in every state of the listener a stream is held if and only if is_listening
\* is true, also after a start_listening that failed
C35_StreamIffListening == (stream # "none") <=> is_listening

\* the part of C35 that holds: while is_listening is true a started stream is held,
\* and stop_listening called while is_listening is true closes it and lets go of it
C35_ListeningHasStream ==
    /\ [](is_listening => stream = "open")
    /\ [][CaptureStop /\ is_listening => /\ stream' = "none"
                                         /\ ~is_listening'
                                         /\ leaked' = leaked]_vars
-----------------------------------------------------------------------------
\* process_command ends the process on cmd, whatever models are installed
IsExit(cmd) == \A models \in ModelLists : process_command(cmd, models).kind = "exit"

\* the voice loop hands a collected bracket command 'exit' to process_command
ExitDispatched ==
    /\ vpc = "collect"
    /\ cpc = "ret"
    /\ ~Contains(done_phrase, Lower(c_ret))
    /\ IsExit(c_ret)
    /\ VoiceDispatch

\* C36: when the bracket command 'exit' has been collected in a conversation the
\* process ends: capture is stopped and the stream is let go of, nothing is spoken
\* and the command line is not started, neither then nor later
C36_ExitEndsProcess ==
    /\ [][ExitDispatched =>
             /\ vpc' = "exited"
             /\ ~is_listening' /\ stream' = "none"
             /\ UNCHANGED <<last_spoken_text, playing, leaked>>]_vars
    /\ [](vpc = "exited" =>
             /\ ~is_listening /\ stream = "none" /\ leaked = 0
             /\ playing = None
             /\ ~Did("say_special") /\ ~Did("say_response") /\ ~Did("llm"))
    /\ [][vpc = "exited" => vpc' = "exited" /\ mpc' = mpc]_vars

\* the conversation was active, capture was running, and 'exit' ended the process
C36_Witness ==
    /\ vpc = "exited"
    /\ in_conversation
    /\ IsExit(command)
    /\ session >= 1
    /\ Did("say_yes")
-----------------------------------------------------------------------------
(* listen_for_command with a recognizer that writes some words with capitals *)

\* "Up go for it"
UpGoForIt == <<"U", "p", " ">> \o go_phrase

JoinVocab == {Yes, Up, UpGoForIt}

InitJoin ==
    /\ is_listening = TRUE
    /\ stream = "open"
    /\ audio_queue = <<>>
    /\ last_spoken_text = None
    /\ now = 0
    /\ vocab = JoinVocab
    /\ ppc = "idle" /\ p_timeout = 0 /\ p_start = 0 /\ was_not_listening = FALSE
    /\ rec_partial = <<>> /\ p_ret = <<>> /\ p_result = NoResult
    /\ wpc = "idle" /\ wake_phrase = <<>> /\ wake_words = {} /\ w_text = <<>>
    /\ leaked = 0
    /\ session = 1
    /\ discarded = 0
    /\ next_id = 0 /\ fed = <<>> /\ buffered = <<>>
    /\ cpc = "call"
    /\ end_command = go_phrase
    /\ timeout \in 1..MaxTimeout
    /\ silence_timeout \in 0..1
    /\ full_command = <<>> /\ start_time = 0 /\ last_activity = 0
    /\ c_ret = <<>> /\ c_exit = "none" /\ accepted = <<>>
    /\ vpc = "idle" /\ in_conversation = FALSE /\ command = <<>> /\ response = <<>>
    /\ cycle = <<>> /\ playing = None /\ interrupted = FALSE
    /\ e_spoken = None /\ e_text = None /\ e_ignored = FALSE
    /\ s_text1 = None /\ s_text2 = None /\ s_sim = None
    /\ mpc = "idle" /\ user_input = None /\ processed = Unprocessed
    /\ checked = None /\ sent = None

SpecJoin == InitJoin /\ [][NextCollect]_vars

\* the segments, each followed by one space, one after the other
RECURSIVE SpaceJoined(_)
SpaceJoined(segs) ==
    IF segs = <<>> THEN <<>>
    ELSE Head(segs) \o <<" ">> \o SpaceJoined(Tail(segs))

\* the portion of the segment that precedes the end phrase, as it was recognized
Preceding(seg) == SubSeq(seg, 1, Find(end_command, Lower(seg), 0))

\* the accepted segments, the last of which is cut before the end phrase when the
\* pass ended on the end phrase
Appended(cut(_)) ==
    IF c_exit = "end"
    THEN [i \in 1..Len(accepted) |->
             IF i = Len(accepted) THEN cut(accepted[i]) ELSE accepted[i]]
    ELSE accepted

\* listen_for_command has returned a command, not the sentinel
CommandReturned == cpc = "ret" /\ c_exit \in {"end", "overall", "silence"}

\* C37: the command returned is the accepted segments in the order of recognition
\* (of the segment that holds the end phrase, the portion that precedes it),
\* separated by single spaces and trimmed
C37_SegmentsJoined ==
    CommandReturned => c_ret = Strip(SpaceJoined(Appended(Preceding)))

LowerPreceding(seg) == Lower(Preceding(seg))

\* the part of C37 that holds: the command returned is the accepted segments in the
\* order of recognition, separated by single spaces and trimmed, where of the
\* segment that holds the end phrase the portion that precedes it is taken, in
\* lower case
C37_SegmentsJoinedLowerCased ==
    CommandReturned => c_ret = Strip(SpaceJoined(Appended(LowerPreceding)))
=============================================================================
